---- MODULE Spec2Model ----
(***************************************************************************)
(* Coverage-guided input generation (genetic-fuzzing-py).                  *)
(*                                                                         *)
(* The module models                                                       *)
(*   - the coverage results (LineExecutionResult, BranchExecutionResult,   *)
(*     HashableResultContainer) and their fraction_covered / novelty /     *)
(*     merge operations, exercised by the specification SpecCov;           *)
(*   - the three search strategies (NovelSearch, InputBag, RandomStrategy) *)
(*     as the callbacks they hand to the generational loop of the          *)
(*     evolutionary engine, exercised by the specification Spec.           *)
(*                                                                         *)
(* The function under test and the coverage instrumentation are external:  *)
(* a call of run_test yields any coverage result over the universe of the  *)
(* function.  Genomes are opaque in this part of the model: a candidate is *)
(* an identity, and what the search sees of it is the result of its        *)
(* evaluation.                                                             *)
(***************************************************************************)
EXTENDS Integers, Sequences, FiniteSets, TLC

VARIABLES
    strategy,          \* "novel" | "bag" | "random": the Strategy subclass that runs
    cls,               \* settings.coverage_tester_class: "line" | "branch"
    settings,          \* the settings dataclass of the strategy
    pc,                \* position of the run inside run() / evolve()
    population,        \* ea.population: sequence of individuals (candidate, fitness)
    parents,           \* the individuals the selector returned
    offspring_cs,      \* the candidates the variators returned
    offspring,         \* the evaluated offspring handed to the replacer
    num_generations,   \* ea.num_generations
    num_evaluations,   \* ea.num_evaluations
    current_coverage,  \* NovelSearch.current_coverage (None until computed)
    log_step,          \* Strategy.log_step
    log,               \* the records written by Strategy.log, in order
    score,             \* the score RandomStrategy.run computes (None until then)
    next_candidate,    \* identity given to the next candidate object created
    ra, rb, rc,        \* SpecCov: three coverage results
    out,               \* SpecCov: what the last coverage operation returned
    batch,             \* SpecOracle: what the function does on each tuple of a batch
    heap,              \* the Python objects of the genomes, by address
    stream,            \* the numbers a Random() seeded with 2347 produces
    pos,               \* how many of them the current run's rand has consumed
    fn,                \* the annotations of the function under test
    registry,          \* TypeAdapterCollection.COLLECTION.adapters
    roots,             \* the genomes and adapters the program holds
    calls,             \* how many operations have been applied to them
    last,              \* the last operation on them
    returned           \* what the calls of run() returned, in order

engine_vars == <<strategy, cls, settings, pc, population, parents, offspring_cs,
                 offspring, num_generations, num_evaluations, current_coverage,
                 log_step, log, score, next_candidate>>
cov_vars == <<ra, rb, rc, out, batch>>
genome_vars == <<heap, stream, pos, fn, registry, roots, calls, last, returned>>
vars == <<strategy, cls, settings, pc, population, parents, offspring_cs,
          offspring, num_generations, num_evaluations, current_coverage,
          log_step, log, score, next_candidate, ra, rb, rc, out, batch,
          heap, stream, pos, fn, registry, roots, calls, last, returned>>

(***************************************************************************)
(* Bounds of the model.                                                    *)
(***************************************************************************)
\* A run evaluates at most this many candidates:
\* num_individuals + num_generations * num_selected <= MaxEvaluations.
MaxEvaluations == 4
\* SpecCov: line universes have 1..NumLines lines.
NumLines == 3
\* SpecCov: branch universes have one branching line with 1..NumArcs exits.
NumArcs == 2
\* RandomStrategy: the batch holds 1..MaxInputs argument tuples.
MaxInputs == 2
\* SpecProb: at most MaxCalls operations are applied to the probabilities.
MaxCalls == 3
\* SpecGenome: at most MaxOps operations are applied to the genomes.
MaxOps == 3
\* A seeded random source repeats after StreamPeriod numbers, each one of
\* NumDigits digits.
StreamPeriod == 2
NumDigits == 4
\* The mutate operator mutates a candidate once and at most MaxRepeats times
\* more.
MaxRepeats == 2
\* A string, list or dict is initialised with 1..MaxLen elements (the code
\* draws the length from 1..5).
MaxLen == 2

(***************************************************************************)
(* Python values.                                                          *)
(***************************************************************************)
\* Optional values: None, or a value x carried as <<x>>.
None == <<>>
Some(x) == <<x>>

Range(s) == {s[i] : i \in DOMAIN s}

\* Call by value: where a definition below writes
\*     CHOOSE r \in {Op(x) : x \in {a}} : TRUE
\* it is Op(a) with a evaluated once, before Op is applied, as Python does.
Min(a, b) == IF a <= b THEN a ELSE b

\* A Python float that is the quotient n / d of two integers, d > 0.
Float(n, d) == [num |-> n, den |-> d]
FloatEq(a, b) == a.num * b.den = b.num * a.den
FloatLt(a, b) == a.num * b.den < b.num * a.den
FloatLeq(a, b) == a.num * b.den <= b.num * a.den

\* list(set(...)) over line numbers: small ints iterate in increasing order.
RECURSIVE list_of_lines(_)
list_of_lines(S) ==
    IF S = {} THEN <<>>
    ELSE LET m == CHOOSE x \in S : \A y \in S : x <= y
         IN <<m>> \o list_of_lines(S \ {m})

\* list(set(...)) over arcs (from, to): one fixed iteration order per set.
ArcLeq(a, b) == a[1] < b[1] \/ (a[1] = b[1] /\ a[2] <= b[2])
RECURSIVE list_of_arcs(_)
list_of_arcs(S) ==
    IF S = {} THEN <<>>
    ELSE LET m == CHOOSE x \in S : \A y \in S : ArcLeq(x, y)
         IN <<m>> \o list_of_arcs(S \ {m})

\* The exception merge_one raises on different universes.
ValueError == [cls |-> "ValueError"]
\* The failed assertion of merge_list on an empty list.
AssertionError == [cls |-> "AssertionError"]
IsError(r) == r.cls \in {"ValueError", "AssertionError"}

(***************************************************************************)
(* LineExecutionResult                                                     *)
(***************************************************************************)
LineExecutionResult(total_lines, missing_lines) ==
    [cls |-> "line", total_lines |-> total_lines, missing_lines |-> missing_lines]

executed_lines(r) == Range(r.total_lines) \ Range(r.missing_lines)

line_fraction_covered(r) ==
    LET covered_lines == Len(r.total_lines) - Len(r.missing_lines)
    IN IF Len(r.total_lines) > 0 THEN Float(covered_lines, Len(r.total_lines))
       ELSE Float(0, 1)

line_novelty(r, baseline) ==
    LET novel_lines == executed_lines(r) \ executed_lines(baseline)
        total_len == Len(r.total_lines)
        val == Cardinality(novel_lines)
    IN IF total_len > 0 THEN Float(val, total_len) ELSE Float(0, 1)

\* Mutant of line_merge_one: the missing lines are united, not intersected.
line_merge_one_union(self, other) ==
    IF self.total_lines # other.total_lines THEN ValueError
    ELSE LineExecutionResult(
             self.total_lines,
             list_of_lines(Range(self.missing_lines) \cup Range(other.missing_lines)))

\* Mutant of line_merge_one: the other result's lines are ignored.
line_merge_one_self(self, other) ==
    IF self.total_lines # other.total_lines THEN ValueError
    ELSE LineExecutionResult(self.total_lines, self.missing_lines)

\* Mutant of line_merge_one: the universes are not compared.
line_merge_one_unchecked(self, other) ==
    LineExecutionResult(
        self.total_lines,
        list_of_lines(Range(self.missing_lines) \cap Range(other.missing_lines)))

line_merge_one(self, other) ==
    IF self.total_lines # other.total_lines THEN ValueError
    ELSE LineExecutionResult(
             self.total_lines,
             list_of_lines(Range(self.missing_lines) \cap Range(other.missing_lines)))

(***************************************************************************)
(* HashableResultContainer and BranchExecutionResult                       *)
(***************************************************************************)
HashableResultContainer(included, excluded) ==
    [included |-> included, excluded |-> excluded]

\* reduce(lambda r, v: r and v[0] == v[1], zip(l1, l2), True)
list_equal(l1, l2) == \A i \in 1..Min(Len(l1), Len(l2)) : l1[i] = l2[i]

container_eq(a, b) ==
    IF Len(a.included) # Len(b.included) \/ Len(a.excluded) # Len(b.excluded)
    THEN FALSE
    ELSE list_equal(a.included, b.included) /\ list_equal(a.excluded, b.excluded)

\* `path in path_hashes` of a Python set: equal hash and __eq__; the hash is
\* a function of the two tuples, so membership is decided by __eq__.
path_in(p, S) == \E q \in S : container_eq(p, q)

RECURSIVE sum_counts(_)
sum_counts(total_branches) ==
    IF total_branches = <<>> THEN 0
    ELSE Head(total_branches)[2] + sum_counts(Tail(total_branches))

BranchExecutionResult(taken_branches, total_branches, path_hashes) ==
    [cls |-> "branch",
     taken_branches |-> taken_branches,
     total_branches |-> total_branches,
     total_branches_count |-> sum_counts(total_branches),
     path_hashes |-> IF path_hashes # None THEN path_hashes[1]
                     ELSE {HashableResultContainer(taken_branches, total_branches)}]

branch_fraction_covered(r) ==
    LET covered_branches == Len(r.taken_branches)
    IN IF r.total_branches_count > 0
       THEN Float(covered_branches, r.total_branches_count)
       ELSE Float(0, 1)

\* Mutant of branch_novelty: the operands are swapped.
branch_novelty_swapped(r, baseline) ==
    IF \E path \in baseline.path_hashes : ~path_in(path, r.path_hashes)
    THEN Float(1, 1) ELSE Float(0, 1)


branch_novelty(r, baseline) ==
    IF \E path \in r.path_hashes : ~path_in(path, baseline.path_hashes)
    THEN Float(1, 1) ELSE Float(0, 1)

branch_merge_one(self, other) ==
    IF self.total_branches # other.total_branches THEN ValueError
    ELSE BranchExecutionResult(
             list_of_arcs(Range(self.taken_branches) \cup Range(other.taken_branches)),
             self.total_branches,
             Some(self.path_hashes \cup other.path_hashes))

(***************************************************************************)
(* ExecutionResult: the operations the strategies call                     *)
(***************************************************************************)
fraction_covered(r) ==
    IF r.cls = "line" THEN line_fraction_covered(r) ELSE branch_fraction_covered(r)

novelty(r, baseline) ==
    IF r.cls = "line" THEN line_novelty(r, baseline) ELSE branch_novelty(r, baseline)

\* A merge one of whose operands is a raised exception never happens: the
\* exception has already left the caller.
merge_one(self, other) ==
    IF IsError(self) THEN self
    ELSE IF IsError(other) THEN other
    ELSE IF self.cls = "line" THEN line_merge_one(self, other)
    ELSE branch_merge_one(self, other)

RECURSIVE merge_all(_, _)
merge_all(self, others) ==
    IF others = <<>> THEN self
    ELSE CHOOSE r \in {merge_all(result, rest) :
                          result \in {merge_one(self, Head(others))},
                          rest \in {Tail(others)}} : TRUE

merge_list(results) ==
    IF Len(results) = 0 THEN AssertionError
    ELSE merge_all(Head(results), Tail(results))

\* The locations a result covers: executed lines, or taken branch arcs.
covered(r) ==
    IF r.cls = "line" THEN executed_lines(r) ELSE Range(r.taken_branches)

(***************************************************************************)
(* run_test: the coverage oracle.  It returns any result over the universe *)
(* of the function under test.                                             *)
(***************************************************************************)
\* The arcs that can leave the branching lines of a universe.
ArcsOf(total_branches) ==
    UNION {{<<total_branches[i][1], total_branches[i][1] + j>> :
              j \in 1..total_branches[i][2]} : i \in DOMAIN total_branches}

\* Lists without repetition over a set.
ListsOver(S) ==
    UNION {{s \in [1..k -> S] : \A i, j \in 1..k : i # j => s[i] # s[j]} :
             k \in 0..Cardinality(S)}

line_run_test(total_lines) ==
    {LineExecutionResult(total_lines, list_of_lines(M)) : M \in SUBSET Range(total_lines)}

branch_run_test(total_branches) ==
    {BranchExecutionResult(t, total_branches, None) : t \in ListsOver(ArcsOf(total_branches))}

(***************************************************************************)
(* SpecCov: the coverage results as values.  Three results are drawn from  *)
(* what run_test can return over the universes, results are merged into    *)
(* one another, and novelty and merge_one are applied to them.             *)
(***************************************************************************)
LineUniverses == {[i \in 1..k |-> i] : k \in 1..NumLines}
BranchUniverses == {<< <<1, k>> >> : k \in 1..NumArcs}

CovResults(c) ==
    IF c = "line" THEN UNION {line_run_test(u) : u \in LineUniverses}
    ELSE UNION {branch_run_test(u) : u \in BranchUniverses}

\* No genome exists: the state of the specifications that hold none.
GenomeIdle ==
    /\ heap = <<>>
    /\ stream = <<>>
    /\ pos = 0
    /\ fn = <<>>
    /\ registry = {}
    /\ roots = <<>>
    /\ calls = 0
    /\ last = [op |-> "none"]
    /\ returned = <<>>

EngineIdle ==
    /\ strategy = "none"
    /\ settings = None
    /\ pc = "idle"
    /\ population = <<>>
    /\ parents = <<>>
    /\ offspring_cs = <<>>
    /\ offspring = <<>>
    /\ num_generations = 0
    /\ num_evaluations = 0
    /\ current_coverage = None
    /\ log_step = 0
    /\ log = <<>>
    /\ score = None
    /\ next_candidate = 1

CovInit ==
    /\ EngineIdle
    /\ GenomeIdle
    /\ cls \in {"line", "branch"}
    /\ ra \in CovResults(cls)
    /\ rb \in CovResults(cls)
    /\ rc \in CovResults(cls)
    /\ out = None
    /\ batch = <<>>

\* ra.novelty(rb)
CovNovelty ==
    /\ out' = Some([op |-> "novelty", val |-> novelty(ra, rb)])
    /\ UNCHANGED <<ra, rb, rc, batch>>
    /\ UNCHANGED engine_vars
    /\ UNCHANGED genome_vars

\* merge_one applied to ra, rb and rc in the orders the algebra of merge names
CovMergeOne ==
    /\ out' = Some([op |-> "merge_one",
                    xy |-> merge_one(ra, rb),
                    yx |-> merge_one(rb, ra),
                    xx |-> merge_one(ra, ra),
                    xy_z |-> merge_one(merge_one(ra, rb), rc),
                    x_yz |-> merge_one(ra, merge_one(rb, rc)),
                    all |-> merge_all(ra, <<rb, rc>>),
                    list |-> merge_list(<<ra, rb, rc>>)])
    /\ UNCHANGED <<ra, rb, rc, batch>>
    /\ UNCHANGED engine_vars
    /\ UNCHANGED genome_vars

\* ra = ra.merge_one(rc): ra becomes a merged result
CovAccumulateA ==
    /\ ~IsError(merge_one(ra, rc))
    /\ ra' = merge_one(ra, rc)
    /\ out' = None
    /\ UNCHANGED <<rb, rc, batch>>
    /\ UNCHANGED engine_vars
    /\ UNCHANGED genome_vars

\* rb = rb.merge_one(rc): rb becomes a merged result
CovAccumulateB ==
    /\ ~IsError(merge_one(rb, rc))
    /\ rb' = merge_one(rb, rc)
    /\ out' = None
    /\ UNCHANGED <<ra, rc, batch>>
    /\ UNCHANGED engine_vars
    /\ UNCHANGED genome_vars

CovNext == CovNovelty \/ CovMergeOne \/ CovAccumulateA \/ CovAccumulateB

SpecCov == CovInit /\ [][CovNext]_vars

(***************************************************************************)
(* Claims about the coverage results                                       *)
(***************************************************************************)
IsNovelty == out # None /\ out[1].op = "novelty"
IsMerge == out # None /\ out[1].op = "merge_one"
CoversNew(r, baseline) == covered(r) \ covered(baseline) # {}

C10_MergeAlgebra ==
    (IsMerge /\ ~IsError(out[1].xy) /\ ~IsError(out[1].xy_z)) =>
        /\ ~IsError(out[1].yx) /\ ~IsError(out[1].x_yz)
        /\ covered(out[1].xy) = covered(out[1].yx)
        /\ FloatEq(fraction_covered(out[1].xy), fraction_covered(out[1].yx))
        /\ covered(out[1].xx) = covered(ra)
        /\ covered(out[1].xy_z) = covered(out[1].x_yz)

\* C10 witness: two results that each cover something the other does not
\* have been merged.
C10_Witness ==
    /\ IsMerge
    /\ ~IsError(out[1].xy_z)
    /\ CoversNew(ra, rb)
    /\ CoversNew(rb, ra)
    /\ CoversNew(rc, out[1].xy)

\* The coverage universe a result was built against.
universe(r) == IF r.cls = "line" THEN r.total_lines ELSE r.total_branches

\* C11: merge_one on two results over different universes raises ValueError
\* and returns nothing, and so do merge_all and merge_list as soon as one of
\* the results they fold differs in universe; whatever a merge returns is a
\* result over the one universe all its operands share.
C11_MergeRejectsMixedUniverses ==
    IsMerge =>
        /\ universe(ra) # universe(rb) =>
              /\ out[1].xy = ValueError
              /\ out[1].yx = ValueError
        /\ (universe(ra) # universe(rb) \/ universe(ra) # universe(rc)) =>
              /\ out[1].all = ValueError
              /\ out[1].list = ValueError
        /\ ~IsError(out[1].xy) =>
              /\ universe(out[1].xy) = universe(ra)
              /\ universe(out[1].xy) = universe(rb)
              /\ covered(out[1].xy) \subseteq covered(ra) \cup covered(rb)
        /\ ~IsError(out[1].all) =>
              /\ universe(out[1].all) = universe(ra)
              /\ universe(ra) = universe(rb)
              /\ universe(ra) = universe(rc)
              /\ out[1].list = out[1].all

\* C11 witness: merge_one, merge_all and merge_list were applied to results
\* of which the first two share a universe and the third does not.
C11_Witness ==
    /\ IsMerge
    /\ universe(ra) = universe(rb)
    /\ universe(ra) # universe(rc)
    /\ ~IsError(out[1].xy)
    /\ out[1].all = ValueError
    /\ covered(rc) # {}

(***************************************************************************)
(* The strategies.  NovelSearch.run and InputBag.run hand their callbacks  *)
(* to the generational loop of the evolutionary engine (ea.evolve):        *)
(*   generate and evaluate the initial population, observe, then until the *)
(*   terminator fires: select, vary, evaluate, replace, count the          *)
(*   generation, observe.                                                  *)
(* RandomStrategy.run evaluates one batch.                                 *)
(***************************************************************************)
\* The universe of the function under test in a run: two lines, or one
\* branching line with two exits.
FnLines == <<1, 2>>
FnBranches == << <<1, 2>> >>

\* tester.run_test on one argument tuple
RunTest == IF cls = "line" THEN line_run_test(FnLines) ELSE branch_run_test(FnBranches)

\* tester.run_test on a batch of k argument tuples: one result for the
\* whole batch; an empty batch executes nothing.
batch_run_test(k) == IF k = 0 THEN {r \in RunTest : covered(r) = {}} ELSE RunTest

EvolveSettings ==
    {c \in [num_individuals : 1..MaxEvaluations,
            num_generations : 0..MaxEvaluations,
            num_selected : 1..MaxEvaluations] :
        c.num_individuals + c.num_generations * c.num_selected <= MaxEvaluations}

RandomStrategySettings == [num_inputs : 0..MaxInputs]

SettingsOf(s) == IF s = "random" THEN RandomStrategySettings ELSE EvolveSettings

Init ==
    /\ GenomeIdle
    /\ strategy \in {"novel", "bag", "random"}
    /\ cls \in {"line", "branch"}
    /\ settings \in SettingsOf(strategy)
    /\ pc = "start"
    /\ population = <<>>
    /\ parents = <<>>
    /\ offspring_cs = <<>>
    /\ offspring = <<>>
    /\ num_generations = 0
    /\ num_evaluations = 0
    /\ current_coverage = None
    \* RandomStrategy.__init__ does not call Strategy.__init__: no log_step
    /\ log_step = IF strategy = "random" THEN None ELSE Some(0)
    /\ log = <<>>
    /\ score = None
    /\ next_candidate = 1
    /\ ra = None /\ rb = None /\ rc = None /\ out = None /\ batch = <<>>

\* An individual of the engine: a candidate and its fitness.
Individual(candidate, fitness) == [candidate |-> candidate, fitness |-> fitness]

\* k candidate objects created now
NewCandidates(k) == [i \in 1..k |-> next_candidate + i - 1]

\* The fitness evaluate_individual gives a candidate whose run_test returned
\* r: NovelSearch keeps the ExecutionResult, InputBag the fraction covered.
fitness_of(r) == IF strategy = "novel" THEN r ELSE fraction_covered(r)

\* Individual.__lt__ under maximize=True: by fitness; an ExecutionResult
\* compares by fraction_covered.
individual_lt(a, b) ==
    IF strategy = "bag" THEN FloatLt(a.fitness, b.fitness)
    ELSE FloatLt(fraction_covered(a.fitness), fraction_covered(b.fitness))

\* list.sort(): stable, ascending
insert_sorted(sorted, x) ==
    LET later == {i \in 1..Len(sorted) : individual_lt(x, sorted[i])}
        at == IF later = {} THEN Len(sorted) + 1
              ELSE CHOOSE i \in later : \A j \in later : i <= j
    IN SubSeq(sorted, 1, at - 1) \o <<x>> \o SubSeq(sorted, at, Len(sorted))

RECURSIVE sort(_)
sort(s) ==
    IF Len(s) = 0 THEN s
    ELSE CHOOSE r \in {insert_sorted(sorted, s[Len(s)]) :
                          sorted \in {sort(SubSeq(s, 1, Len(s) - 1))}} : TRUE

\* ec.selectors.rank_selection: num_selected draws from the sorted copy of
\* the population; every rank has a positive probability.
rank_selection(pop) ==
    LET sorted == sort(pop)
    IN {[i \in 1..settings.num_selected |-> sorted[idx[i]]] :
          idx \in [1..settings.num_selected -> 1..Len(pop)]}

\* Mutant of terminator: off by one, fires a generation early.
terminator_early(generations) == generations >= settings.num_generations - 1


terminator(generations) == generations = settings.num_generations

\* Strategy.log
Log(s) ==
    /\ log' = Append(log, [step |-> log_step[1], score |-> s])
    /\ log_step' = Some(log_step[1] + 1)

\* evolve: the generator is called pop_size times
Generate ==
    /\ pc = "start"
    /\ strategy \in {"novel", "bag"}
    /\ offspring_cs' = NewCandidates(settings.num_individuals)
    /\ next_candidate' = next_candidate + settings.num_individuals
    /\ pc' = "evaluate_initial"
    /\ UNCHANGED <<strategy, cls, settings, population, parents, offspring,
                   num_generations, num_evaluations, current_coverage, log_step,
                   log, score>>
    /\ UNCHANGED cov_vars
    /\ UNCHANGED genome_vars

\* evaluate_individual: one pass of its loop calls run_test on the next
\* candidate.  When the last candidate is evaluated the evaluator returns:
\* the initial candidates become the population, later ones the offspring
\* handed to the replacer, and the engine counts the evaluations.
EvaluateCandidate ==
    /\ pc \in {"evaluate_initial", "evaluate"}
    /\ Len(offspring) < Len(offspring_cs)
    /\ \E r \in RunTest :
          \E evaluated \in {Append(offspring,
                                  Individual(offspring_cs[Len(offspring) + 1],
                                             fitness_of(r)))} :
             IF Len(evaluated) < Len(offspring_cs)
             THEN /\ offspring' = evaluated
                  /\ UNCHANGED <<pc, population, offspring_cs, num_evaluations>>
             ELSE IF pc = "evaluate_initial"
             THEN /\ population' = evaluated
                  /\ offspring' = <<>>
                  /\ offspring_cs' = <<>>
                  /\ num_evaluations' = Len(evaluated)
                  /\ pc' = "observe"
             ELSE /\ offspring' = evaluated
                  /\ num_evaluations' = num_evaluations + Len(evaluated)
                  /\ pc' = "replace"
                  /\ UNCHANGED <<population, offspring_cs>>
    /\ UNCHANGED <<strategy, cls, settings, parents, num_generations,
                   current_coverage, log_step, log, score, next_candidate>>
    /\ UNCHANGED cov_vars
    /\ UNCHANGED genome_vars

\* NovelSearch.run: observer
NovelObserve ==
    /\ pc = "observe"
    /\ strategy = "novel"
    /\ IF current_coverage = None
       THEN UNCHANGED <<log, log_step>>
       ELSE Log(fraction_covered(current_coverage[1]))
    /\ pc' = "terminate"
    /\ UNCHANGED <<strategy, cls, settings, population, parents, offspring_cs,
                   offspring, num_generations, num_evaluations, current_coverage,
                   score, next_candidate>>
    /\ UNCHANGED cov_vars
    /\ UNCHANGED genome_vars

\* max() of the fitnesses of a non-empty population
best_score(pop) ==
    LET f == CHOOSE x \in Range(pop) : \A y \in Range(pop) : FloatLeq(y.fitness, x.fitness)
    IN f.fitness

\* InputBag.run: observer
BagObserve ==
    /\ pc = "observe"
    /\ strategy = "bag"
    /\ Log(best_score(population))
    /\ pc' = "terminate"
    /\ UNCHANGED <<strategy, cls, settings, population, parents, offspring_cs,
                   offspring, num_generations, num_evaluations, current_coverage,
                   score, next_candidate>>
    /\ UNCHANGED cov_vars
    /\ UNCHANGED genome_vars

\* the terminator fires: evolve returns
Terminate ==
    /\ pc = "terminate"
    /\ terminator(num_generations)
    /\ pc' = "done"
    /\ UNCHANGED <<strategy, cls, settings, population, parents, offspring_cs,
                   offspring, num_generations, num_evaluations, current_coverage,
                   log_step, log, score, next_candidate>>
    /\ UNCHANGED cov_vars
    /\ UNCHANGED genome_vars

\* the terminator does not fire: the selector picks the parents
Select ==
    /\ pc = "terminate"
    /\ ~terminator(num_generations)
    /\ parents' \in rank_selection(population)
    /\ pc' = "vary"
    /\ UNCHANGED <<strategy, cls, settings, population, offspring_cs, offspring,
                   num_generations, num_evaluations, current_coverage, log_step,
                   log, score, next_candidate>>
    /\ UNCHANGED cov_vars
    /\ UNCHANGED genome_vars

\* crossover_operator then mutate_operator: as many new candidates as parents
Vary ==
    /\ pc = "vary"
    /\ offspring_cs' = NewCandidates(Len(parents))
    /\ next_candidate' = next_candidate + Len(parents)
    /\ pc' = "evaluate"
    /\ UNCHANGED <<strategy, cls, settings, population, parents, offspring,
                   num_generations, num_evaluations, current_coverage, log_step,
                   log, score>>
    /\ UNCHANGED cov_vars
    /\ UNCHANGED genome_vars

Fitnesses(inds) == [i \in 1..Len(inds) |-> inds[i].fitness]

\* The archive the replacer judges the offspring against.
archive_of(pop, cc) == IF cc = None THEN merge_list(Fitnesses(pop)) ELSE cc[1]

\* Mutant of novelty_replacer: every offspring is admitted.
novelty_replacer_admit_all(pop, offs, cc) ==
    LET archive == archive_of(pop, cc)
    IN [population |-> pop \o offs,
        current_coverage |-> merge_all(archive, Fitnesses(offs))]

\* Mutant of novelty_replacer: the admitted offspring are not merged into
\* the archive.
novelty_replacer_no_merge(pop, offs, cc) ==
    LET archive == archive_of(pop, cc)
        is_novel(x) == novelty(x.fitness, archive).num # 0
        individuals_to_add == SelectSeq(offs, is_novel)
    IN [population |-> pop \o individuals_to_add,
        current_coverage |-> archive]

\* Mutant of novelty_replacer: the admitted offspring take the place of the
\* oldest individuals.
novelty_replacer_evict(pop, offs, cc) ==
    LET archive == archive_of(pop, cc)
        is_novel(x) == novelty(x.fitness, archive).num # 0
        individuals_to_add == SelectSeq(offs, is_novel)
    IN [population |-> SubSeq(pop, Min(Len(individuals_to_add), Len(pop)) + 1, Len(pop))
                         \o individuals_to_add,
        current_coverage |-> merge_all(archive, Fitnesses(individuals_to_add))]

\* Mutant of novelty_replacer: the offspring are judged in turn, each against
\* the archive that holds the offspring admitted before it.
RECURSIVE admit_in_turn(_, _, _)
admit_in_turn(pop, offs, archive) ==
    IF offs = <<>> THEN [population |-> pop, current_coverage |-> archive]
    ELSE IF novelty(Head(offs).fitness, archive).num # 0
    THEN admit_in_turn(Append(pop, Head(offs)), Tail(offs),
                       merge_all(archive, <<Head(offs).fitness>>))
    ELSE admit_in_turn(pop, Tail(offs), archive)

novelty_replacer_in_turn(pop, offs, cc) ==
    CHOOSE r \in {admit_in_turn(pop, offs, archive) :
                    archive \in {archive_of(pop, cc)}} : TRUE

\* NovelSearch.run: novelty_replacer; returns the new population and the
\* new self.current_coverage
novelty_replacer(pop, offs, cc) ==
    LET admit(archive) ==
            LET is_novel(x) == novelty(x.fitness, archive).num # 0
                to_return(individuals_to_add) ==
                    [population |-> pop \o individuals_to_add,
                     current_coverage |->
                         merge_all(archive, Fitnesses(individuals_to_add))]
            IN CHOOSE r \in {to_return(to_add) : to_add \in {SelectSeq(offs, is_novel)}} : TRUE
    IN CHOOSE r \in {admit(archive) : archive \in {archive_of(pop, cc)}} : TRUE

NovelReplace ==
    /\ pc = "replace"
    /\ strategy = "novel"
    /\ \E r \in {novelty_replacer(population, offspring, current_coverage)} :
          /\ population' = r.population
          /\ current_coverage' = Some(r.current_coverage)
    /\ num_generations' = num_generations + 1
    /\ pc' = "observe"
    /\ parents' = <<>> /\ offspring_cs' = <<>> /\ offspring' = <<>>
    /\ UNCHANGED <<strategy, cls, settings, num_evaluations, log_step, log,
                   score, next_candidate>>
    /\ UNCHANGED cov_vars
    /\ UNCHANGED genome_vars

\* Mutant of steady_state_replacement: the offspring are added and nothing
\* is replaced.
steady_state_replacement_plus(pop, offs) == sort(pop) \o offs

\* Mutant of steady_state_replacement: the offspring take the place of the
\* best individuals, the last ones of the sorted population.
steady_state_replacement_best(pop, offs) ==
    LET sorted == sort(pop)
        num_to_replace == Min(Len(offs), Len(sorted))
    IN SubSeq(sorted, 1, Len(sorted) - num_to_replace) \o offs

\* ec.replacers.steady_state_replacement: population.sort();
\* population[:min(len(offspring), len(population))] = offspring
steady_state_replacement(pop, offs) ==
    LET sorted == sort(pop)
        num_to_replace == Min(Len(offs), Len(sorted))
    IN offs \o SubSeq(sorted, num_to_replace + 1, Len(sorted))

BagReplace ==
    /\ pc = "replace"
    /\ strategy = "bag"
    /\ population' = steady_state_replacement(population, offspring)
    /\ num_generations' = num_generations + 1
    /\ pc' = "observe"
    /\ parents' = <<>> /\ offspring_cs' = <<>> /\ offspring' = <<>>
    /\ UNCHANGED <<strategy, cls, settings, num_evaluations, current_coverage,
                   log_step, log, score, next_candidate>>
    /\ UNCHANGED cov_vars
    /\ UNCHANGED genome_vars

\* RandomStrategy.run: one Individual of num_inputs genomes, evaluated once
RandomRun ==
    /\ pc = "start"
    /\ strategy = "random"
    /\ \E r \in batch_run_test(settings.num_inputs) :
          score' = Some(fraction_covered(r))
    /\ next_candidate' = next_candidate + 1
    /\ pc' = "done"
    /\ UNCHANGED <<strategy, cls, settings, population, parents, offspring_cs,
                   offspring, num_generations, num_evaluations, current_coverage,
                   log_step, log>>
    /\ UNCHANGED cov_vars
    /\ UNCHANGED genome_vars

Next ==
    \/ Generate
    \/ EvaluateCandidate
    \/ NovelObserve
    \/ BagObserve
    \/ Terminate
    \/ Select
    \/ Vary
    \/ NovelReplace
    \/ BagReplace
    \/ RandomRun

Spec == Init /\ [][Next]_vars

\* The loop is single-threaded and synchronous: a step that can be taken is
\* taken.
FairSpec == Init /\ [][Next]_vars /\ WF_vars(Next)

(***************************************************************************)
(* Claims about the strategies                                             *)
(***************************************************************************)
RECURSIVE UnionCovered(_)
UnionCovered(results) ==
    IF results = <<>> THEN {}
    ELSE covered(Head(results)) \cup UnionCovered(Tail(results))

\* C1: over a NovelSearch run the scores the observer logs never decrease,
\* and the archive never covers a smaller fraction than the last logged one.
C1_ArchiveNonDecreasing ==
    strategy = "novel" =>
        /\ \A i \in 1..(Len(log) - 1) : FloatLeq(log[i].score, log[i + 1].score)
        /\ (log # <<>> /\ current_coverage # None) =>
              FloatLeq(log[Len(log)].score, fraction_covered(current_coverage[1]))

\* C1 witness: two generations logged, the second with a larger fraction.
C1_Witness ==
    /\ strategy = "novel"
    /\ Len(log) >= 2
    /\ FloatLt(log[1].score, log[2].score)

\* C2: in a replacement step of NovelSearch an offspring joins the
\* population iff its novelty against the archive the replacer starts from
\* is non-zero; the new archive covers what that archive covered and what
\* the admitted offspring cover, and (branch) knows their paths and no other.
C2_AdmittedIffNovel ==
    [][(pc = "replace" /\ strategy = "novel") =>
          LET archive == archive_of(population, current_coverage)
              novel == {i \in DOMAIN offspring :
                          novelty(offspring[i].fitness, archive).num # 0}
              added == {population'[j] : j \in (Len(population) + 1)..Len(population')}
          IN /\ \A i \in DOMAIN offspring : (offspring[i] \in added) <=> (i \in novel)
             /\ Len(population') = Len(population) + Cardinality(novel)
             /\ covered(current_coverage'[1]) =
                    covered(archive) \cup UNION {covered(offspring[i].fitness) : i \in novel}
             /\ cls = "branch" =>
                   current_coverage'[1].path_hashes =
                       archive.path_hashes
                           \cup UNION {offspring[i].fitness.path_hashes : i \in novel}
      ]_vars

\* C2 witness: a replacement has admitted one offspring and rejected another.
C2_Witness ==
    /\ strategy = "novel"
    /\ pc = "observe"
    /\ num_generations = 1
    /\ settings.num_selected = 2
    /\ Len(population) = settings.num_individuals + 1

\* C4: once the archive exists it covers exactly the union of what the
\* fitness results of the individuals in the population cover.
C4_ArchiveIsUnionOfPopulation ==
    (strategy = "novel" /\ current_coverage # None) =>
        covered(current_coverage[1]) = UnionCovered(Fitnesses(population))

\* C4 witness: after a replacement that admitted an offspring the archive
\* covers more than any single individual of the population.
C4_Witness ==
    /\ strategy = "novel"
    /\ current_coverage # None
    /\ Len(population) > settings.num_individuals
    /\ \A i \in DOMAIN population :
          covered(population[i].fitness) # covered(current_coverage[1])

\* C5: no step of a NovelSearch run removes an individual: the population
\* before a step is a prefix of the population after it.
C5_PopulationOnlyGrows ==
    [][strategy = "novel" =>
          /\ Len(population') >= Len(population)
          /\ \A i \in DOMAIN population : population'[i] = population[i]
      ]_vars

\* C5 witness: two replacements done, one of which admitted an offspring.
C5_Witness ==
    /\ strategy = "novel"
    /\ num_generations >= 2
    /\ Len(population) > settings.num_individuals

C8_OneRecordPerGeneration ==
    (strategy \in {"novel", "bag"} /\ pc = "terminate") =>
        /\ Len(log) = num_generations + 1
        /\ log[Len(log)].step = num_generations

\* C9 (as claimed): when RandomStrategy.run has returned, a coverage
\* fraction was logged for generation 0 and for the final generation, and
\* the final one is not smaller.
C9_RandomLogsNonDecreasing ==
    (strategy = "random" /\ pc = "done") =>
        /\ Len(log) >= 1
        /\ FloatLeq(log[1].score, log[Len(log)].score)

(***************************************************************************)
(* The genomes.  Adapters, argument dispatchers and bags are Python        *)
(* objects: the heap maps an address to the fields of the object at it,    *)
(* and a field that holds an object holds its address, so two objects      *)
(* share state exactly when they hold the same address.                    *)
(*                                                                         *)
(* Floats are carried in hundredths (Fixed(1) is 1.0).  A call returns     *)
(* the set of its outcomes: the world after it, and either the value       *)
(* returned or the name of the exception raised.                           *)
(***************************************************************************)
Fixed(x) == 100 * x
\* int(x) of a float: truncation toward zero
int(x) == IF x >= 0 THEN x \div Fixed(1) ELSE -((-x) \div Fixed(1))
\* np.clip(x, lo, hi)
clip(x, lo, hi) == IF x < lo THEN lo ELSE IF x > hi THEN hi ELSE x
Max(a, b) == IF a >= b THEN a ELSE b

World(h, s, p) == [heap |-> h, stream |-> s, pos |-> p]
Ok(w, ret) == [w |-> w, ret |-> ret, exc |-> ""]
Raise(w, e) == [w |-> w, ret |-> None, exc |-> e]
Raised(o) == o.exc # ""
\* Creating an object returns its address.
Alloc(w, obj) == Ok([w EXCEPT !.heap = Append(@, obj)], Len(w.heap) + 1)
Store(w, a, obj) == [w EXCEPT !.heap[a] = obj]

(***************************************************************************)
(* The random sources.  `random` is "rand", a Random() object that has     *)
(* been seeded, or "module", the process-wide generator of the random      *)
(* module, which nothing seeds.  A seeded source yields one fixed stream   *)
(* of numbers, the same every time it is created from its seed: the world  *)
(* holds that stream and how far it has been read.  The streams are        *)
(* sampled among the sequences of period StreamPeriod over NumDigits       *)
(* digits.  The state of the module's generator is unknown.  One number    *)
(* decides one call; n is the number of outcomes the call is sampled at.   *)
(***************************************************************************)
Streams == [1..StreamPeriod -> 0..(NumDigits - 1)]

Draw(w, random, n) ==
    IF random = "module" THEN {Ok(w, u) : u \in 0..(n - 1)}
    ELSE {Ok([w EXCEPT !.pos = @ + 1], w.stream[(w.pos % Len(w.stream)) + 1] % n)}

\* random.random(): a float in [0, 1), sampled at 0.05, 0.21 and 0.60
RandomSamples == <<5, 21, 60>>
random_random(w, random) ==
    {Ok(d.w, RandomSamples[d.ret + 1]) : d \in Draw(w, random, Len(RandomSamples))}

\* random.gauss(0, sigma), sampled one sigma below and above the mean
random_gauss(w, random, sigma) ==
    {Ok(d.w, IF d.ret = 0 THEN -sigma ELSE sigma) : d \in Draw(w, random, 2)}

\* random.randint(a, b), sampled at its ends; empty range: ValueError
random_randint(w, random, a, b) ==
    IF a > b THEN {Raise(w, "ValueError")}
    ELSE {Ok(d.w, IF d.ret = 0 THEN a ELSE b) : d \in Draw(w, random, 2)}

\* random.choice(seq); random.choices(seq, weights, k=1)[0] with positive
\* weights can return every element too
random_choice(w, random, seq) ==
    IF Len(seq) = 0 THEN {Raise(w, "IndexError")}
    ELSE {Ok(d.w, seq[d.ret + 1]) : d \in Draw(w, random, Len(seq))}

(***************************************************************************)
(* MutableProbability                                                      *)
(***************************************************************************)
MutableProbability(initial_probability, std) ==
    [kind |-> "MutableProbability", v |-> initial_probability, std |-> std]

\* Mutant of MutableProbability_mutate: the clip is left out.
MutableProbability_mutate_unclipped(w, random, self) ==
    {Ok(Store(g.w, self, [g.w.heap[self] EXCEPT !.v = @ + g.ret]), None) :
        g \in random_gauss(w, random, w.heap[self].std)}

MutableProbability_mutate(w, random, self) ==
    {Ok(Store(g.w, self, [g.w.heap[self] EXCEPT
                              !.v = clip(@ + g.ret, Fixed(0), Fixed(1))]), None) :
        g \in random_gauss(w, random, w.heap[self].std)}

MutableProbability_crossover(w, random, a, b) ==
    LET v_min == Min(w.heap[a].v, w.heap[b].v)
        v_max == Max(w.heap[a].v, w.heap[b].v)
        std_min == Min(w.heap[a].std, w.heap[b].std)
        std_max == Max(w.heap[a].std, w.heap[b].std)
    IN UNION {{Alloc(r2.w, MutableProbability(
                   (r1.ret * (v_max - v_min)) \div Fixed(1) + v_min,
                   (r2.ret * (std_max - std_min)) \div Fixed(1) + std_min)) :
                 r2 \in random_random(r1.w, random)} :
              r1 \in random_random(w, random)}

MutableProbability_event(w, random, self) ==
    {Ok(r.w, r.ret < w.heap[self].v) : r \in random_random(w, random)}

(***************************************************************************)
(* SpecProb: two MutableProbability objects with a probability in [0, 1],  *)
(* mutated and crossed over any number of times.                           *)
(***************************************************************************)
ProbInit ==
    /\ EngineIdle
    /\ cls = "line"
    /\ ra = None /\ rb = None /\ rc = None /\ out = None /\ batch = <<>>
    /\ heap \in {<<MutableProbability(va, sa), MutableProbability(vb, sb)>> :
                    va \in {Fixed(0), 99}, vb \in {10, Fixed(1)},
                    sa \in {2, 60}, sb \in {2}}
    /\ stream = <<>>
    /\ pos = 0
    /\ fn = <<>>
    /\ registry = {}
    /\ roots = <<>>
    /\ calls = 0
    /\ last = [op |-> "none"]
    /\ returned = <<>>

\* heap[self].mutate(random)
ProbMutate ==
    /\ calls < MaxCalls
    /\ \E self \in DOMAIN heap :
       \E o \in MutableProbability_mutate(World(heap, stream, pos), "module", self) :
          /\ heap' = o.w.heap
          /\ last' = [op |-> "mutate", target |-> self, v |-> heap[self].v]
          /\ calls' = calls + 1
          /\ UNCHANGED <<stream, pos, fn, registry, roots, returned>>
          /\ UNCHANGED engine_vars
          /\ UNCHANGED cov_vars

\* heap[self] = MutableProbability.crossover(random, heap[1], heap[2])
ProbCrossover ==
    /\ calls < MaxCalls
    /\ \E self \in DOMAIN heap :
       \E o \in MutableProbability_crossover(World(heap, stream, pos), "module", 1, 2) :
          /\ heap' = [heap EXCEPT ![self] = o.w.heap[o.ret]]
          /\ last' = [op |-> "crossover", target |-> self, v |-> heap[self].v]
          /\ calls' = calls + 1
          /\ UNCHANGED <<stream, pos, fn, registry, roots, returned>>
          /\ UNCHANGED engine_vars
          /\ UNCHANGED cov_vars

ProbNext == ProbMutate \/ ProbCrossover

SpecProb == ProbInit /\ [][ProbNext]_vars

\* C17: after any sequence of MutableProbability.mutate and crossover calls
\* that starts from probabilities in [0, 1], every probability v is in [0, 1].
C17_ProbabilityInUnitInterval ==
    \A a \in DOMAIN heap :
        heap[a].kind = "MutableProbability" =>
            (Fixed(0) <= heap[a].v /\ heap[a].v <= Fixed(1))

\* C17 witness: a mutate whose gauss step led out of [0, 1] has been clipped:
\* the probability was above 0.40, the step was 0.60 upwards, v is now 1.0.
C17_Witness ==
    /\ last.op = "mutate"
    /\ heap[last.target].std = 60
    /\ last.v > 40
    /\ heap[last.target].v = Fixed(1)

(***************************************************************************)
(* Types and the adapter registry                                          *)
(***************************************************************************)
\* An annotation: a class (int, bool, float, str) or a GenericAlias
\* (list[T], dict[K, V]) with its __origin__ and __args__.
Type(origin, args) == [origin |-> origin, args |-> args]

\* TypeAdapter.get_raw_time
get_raw_time(adapted_type) == adapted_type.origin

\* <Adapter>.get_type()
get_type(adapter) ==
    CASE adapter = "ListAdapter" -> "list"
      [] adapter = "IntAdapter" -> "int"
      [] adapter = "FloatAdapter" -> "float"
      [] adapter = "BoolAdapter" -> "bool"
      [] adapter = "StrAdapter" -> "str"
      [] adapter = "DictAdapter" -> "dict"

\* TypeAdapterCollection(use_default_adapters_list=True).adapters
DefaultAdapters ==
    {"ListAdapter", "IntAdapter", "FloatAdapter", "BoolAdapter", "StrAdapter"}

\* Mutant of get_adapter: a type without an adapter is given the IntAdapter.
get_adapter_lenient(w, t) ==
    IF \E a \in registry : get_type(a) = t
    THEN Ok(w, CHOOSE a \in registry : get_type(a) = t)
    ELSE Ok(w, "IntAdapter")

\* TypeAdapterCollection.get_adapter_static: KeyError becomes Exception
get_adapter(w, t) ==
    IF \E a \in registry : get_type(a) = t
    THEN Ok(w, CHOOSE a \in registry : get_type(a) = t)
    ELSE Raise(w, "Exception")

(***************************************************************************)
(* The adapters.  initialize, get_value, mutate, crossover and deep_copy   *)
(* dispatch on the class of the adapter, as the method call does.          *)
(***************************************************************************)
RECURSIVE initialize(_, _, _, _, _)
RECURSIVE get_value(_, _)
RECURSIVE mutate(_, _, _)
RECURSIVE crossover(_, _, _, _)
RECURSIVE deep_copy(_, _)

\* [adapter.initialize(random, inner_type, x) for x in initial_values]:
\* the adapters created, in order; the first exception ends it.
RECURSIVE initialize_each(_, _, _, _, _, _)
initialize_each(w, random, adapter, inner_type, initial_values, created) ==
    IF initial_values = <<>> THEN {Ok(w, created)}
    ELSE UNION {IF Raised(o) THEN {o}
                ELSE initialize_each(o.w, random, adapter, inner_type,
                                     Tail(initial_values), Append(created, o.ret)) :
                  o \in initialize(w, random, adapter, inner_type, Head(initial_values))}

\* [x.deep_copy() for x in adapters]
RECURSIVE deep_copy_each(_, _, _)
deep_copy_each(w, adapters, copies) ==
    IF adapters = <<>> THEN Ok(w, copies)
    ELSE CHOOSE r \in {deep_copy_each(c.w, Tail(adapters), Append(copies, c.ret)) :
                          c \in {deep_copy(w, Head(adapters))}} : TRUE

\* ---- BoolAdapter ------------------------------------------------------
BoolAdapter(value) == [kind |-> "BoolAdapter", value |-> value]

\* value = initial_value or random.choice[True, False]: the right operand
\* subscripts a bound method, which raises TypeError; it is evaluated when
\* initial_value is None or False.
BoolAdapter_initialize(w, random, adapted_type, initial_value) ==
    IF initial_value # None /\ initial_value[1]
    THEN {Alloc(w, BoolAdapter(initial_value[1]))}
    ELSE {Raise(w, "TypeError")}

BoolAdapter_mutate(w, random, self) ==
    {IF r.ret = 0
     THEN Ok(Store(r.w, self, BoolAdapter(~r.w.heap[self].value)), None)
     ELSE Ok(r.w, None) : r \in random_randint(w, random, 0, 1)}

BoolAdapter_deep_copy(w, self) == Alloc(w, BoolAdapter(w.heap[self].value))

\* Mutant of BoolAdapter_crossover: a parent is returned, not its copy.
BoolAdapter_crossover_alias(w, random, a, b) ==
    {IF r.ret = 0 THEN Ok(r.w, a) ELSE Ok(r.w, b) :
        r \in random_randint(w, random, 0, 1)}

BoolAdapter_crossover(w, random, a, b) ==
    {IF r.ret = 0 THEN BoolAdapter_deep_copy(r.w, a) ELSE BoolAdapter_deep_copy(r.w, b) :
        r \in random_randint(w, random, 0, 1)}

\* ---- IntAdapter -------------------------------------------------------
I_VALUE == 0
I_MUT_STD == 1
I_RESET_PROB == 2
I_RESET_LOWER_BOUND == 3
I_RESET_UPPER_BOUND == 4

INITIAL_LOWER_BOUND == -5
INITIAL_UPPER_BOUND == 100
INITIAL_MUT_STD == 5
\* 0.5
INITIAL_RESET_PROB == 50

MUT_STD_MUTATION_RATE == 1
\* 0.05
RESET_PROB_MUTATION_RATE == 5

\* A numpy array of float64: an object of its own, held by reference.
ndarray(data) == [kind |-> "ndarray", data |-> data]
IntAdapter(value) == [kind |-> "IntAdapter", value |-> value]

\* self.value[i] and self.value[i] = x
item(w, self, i) == w.heap[w.heap[self].value].data[i + 1]
setitem(w, self, i, x) ==
    Store(w, w.heap[self].value,
          [w.heap[w.heap[self].value] EXCEPT !.data[i + 1] = x])

IntAdapter_initialize(w, random, adapted_type, initial_value) ==
    LET values == IF initial_value # None THEN {Ok(w, initial_value[1])}
                  ELSE random_randint(w, random, INITIAL_LOWER_BOUND, INITIAL_UPPER_BOUND)
    IN {LET value == Alloc(v.w, ndarray(<<Fixed(v.ret),
                                          Fixed(INITIAL_MUT_STD),
                                          INITIAL_RESET_PROB,
                                          Fixed(INITIAL_LOWER_BOUND),
                                          Fixed(INITIAL_UPPER_BOUND)>>))
        IN Alloc(value.w, IntAdapter(value.ret)) : v \in values}

\* The three gauss steps of the regular mutation.
IntAdapter_regular_mutation(w, random, self) ==
    LET std == item(w, self, I_MUT_STD)
    IN UNION {UNION {
         {Ok(setitem(setitem(setitem(g3.w, self, I_VALUE,
                                     item(w, self, I_VALUE) + g1.ret),
                             self, I_RESET_LOWER_BOUND,
                             item(w, self, I_RESET_LOWER_BOUND) + g2.ret),
                     self, I_RESET_UPPER_BOUND,
                     item(w, self, I_RESET_UPPER_BOUND) + g3.ret), None) :
            g3 \in random_gauss(g2.w, random, std)} :
          g2 \in random_gauss(g1.w, random, std)} :
        g1 \in random_gauss(w, random, std)}

\* Mutant of IntAdapter_reset: the number drawn is stored as the value.
IntAdapter_reset_value(w, random, self) ==
    {IF Raised(n) THEN n ELSE Ok(setitem(n.w, self, I_VALUE, Fixed(n.ret)), None) :
        n \in random_randint(w, random,
                             int(item(w, self, I_RESET_LOWER_BOUND)),
                             int(item(w, self, I_RESET_UPPER_BOUND)))}

\* "reset resetting": the mutation step is drawn anew between the bounds
IntAdapter_reset(w, random, self) ==
    {IF Raised(n) THEN n ELSE Ok(setitem(n.w, self, I_MUT_STD, Fixed(n.ret)), None) :
        n \in random_randint(w, random,
                             int(item(w, self, I_RESET_LOWER_BOUND)),
                             int(item(w, self, I_RESET_UPPER_BOUND)))}

IntAdapter_mutate(w, random, self) ==
    UNION {UNION {UNION {
        IF r.ret < item(r.w, self, I_RESET_PROB)
        THEN IntAdapter_reset(r.w, random, self)
        ELSE IntAdapter_regular_mutation(r.w, random, self) :
          r \in random_random(
                  setitem(g2.w, self, I_MUT_STD,
                          clip(item(g2.w, self, I_MUT_STD) + g2.ret, Fixed(0), Fixed(1))),
                  random)} :
        g2 \in random_gauss(
                  setitem(g1.w, self, I_RESET_PROB,
                          clip(item(g1.w, self, I_RESET_PROB) + g1.ret, Fixed(0), Fixed(1))),
                  random, Fixed(MUT_STD_MUTATION_RATE))} :
      g1 \in random_gauss(w, random, RESET_PROB_MUTATION_RATE)}

\* r = lo + (hi - lo) * rng.random(shape), rng seeded with the number drawn:
\* sampled with every element at the lower value, or half way up.
IntAdapter_crossover(w, random, a, b) ==
    {LET lo == [i \in 1..5 |-> Min(w.heap[w.heap[a].value].data[i],
                                   w.heap[w.heap[b].value].data[i])]
         hi == [i \in 1..5 |-> Max(w.heap[w.heap[a].value].data[i],
                                   w.heap[w.heap[b].value].data[i])]
         r == Alloc(s.w, ndarray([i \in 1..5 |->
                        IF s.ret = 0 THEN lo[i] ELSE lo[i] + (hi[i] - lo[i]) \div 2]))
     IN Alloc(r.w, IntAdapter(r.ret)) : s \in random_randint(w, random, 0, 1000000)}

\* Mutant of IntAdapter_deep_copy: the copy holds the same array (the first,
\* overridden definition of deep_copy in the class body).
IntAdapter_deep_copy_shared(w, self) == Alloc(w, IntAdapter(w.heap[self].value))

\* The definition of deep_copy that is in effect: the second one of the class
\* body, np.array(self.value, copy=True).
IntAdapter_deep_copy(w, self) ==
    CHOOSE r \in {Alloc(value.w, IntAdapter(value.ret)) :
                    value \in {Alloc(w, ndarray(w.heap[w.heap[self].value].data))}} : TRUE

\* ---- FloatAdapter -----------------------------------------------------
\* float_adapters.py never imports numpy: np.zeros raises NameError, so no
\* FloatAdapter is ever created by initialize.
FloatAdapter_initialize(w, random, adapted_type, initial_value) ==
    {Raise(w, "NameError")}


\* ---- StrAdapter -------------------------------------------------------
\* A string is the sequence of its characters.  The alphabet is cut down to
\* its first two letters.
ALLOWED_CHARACTERS == <<"A", "B">>

StrAdapter(value) == [kind |-> "StrAdapter", _value |-> value]

\* "".join(random.choice(ALLOWED_CHARACTERS) for _ in range(length))
RECURSIVE random_string(_, _, _, _)
random_string(w, random, length, joined) ==
    IF length = 0 THEN {Ok(w, joined)}
    ELSE UNION {random_string(c.w, random, length - 1, Append(joined, c.ret)) :
                  c \in random_choice(w, random, ALLOWED_CHARACTERS)}

StrAdapter_initialize(w, random, adapted_type, initial_value) ==
    IF initial_value # None THEN {Alloc(w, StrAdapter(initial_value[1]))}
    ELSE UNION {{Alloc(s.w, StrAdapter(s.ret)) :
                   s \in random_string(length.w, random, length.ret, <<>>)} :
                length \in random_randint(w, random, 1, MaxLen)}

\* The substitution, insertion or deletion of StrAdapter.mutate: the string
\* it leaves.
StrAdapter_edit(w, random, current_val, mutation_type) ==
    LET n == Len(current_val)
    IN IF mutation_type = 0 /\ n > 0
       THEN UNION {{Ok(c.w, SubSeq(current_val, 1, p.ret) \o <<c.ret>>
                              \o SubSeq(current_val, p.ret + 2, n)) :
                      c \in random_choice(p.w, random, ALLOWED_CHARACTERS)} :
                   p \in random_randint(w, random, 0, n - 1)}
       ELSE IF mutation_type = 1
       THEN UNION {{Ok(c.w, SubSeq(current_val, 1, p.ret) \o <<c.ret>>
                              \o SubSeq(current_val, p.ret + 1, n)) :
                      c \in random_choice(p.w, random, ALLOWED_CHARACTERS)} :
                   p \in random_randint(w, random, 0, n)}
       ELSE IF mutation_type = 2 /\ n > 0
       THEN {Ok(p.w, SubSeq(current_val, 1, p.ret)
                       \o SubSeq(current_val, p.ret + 2, n)) :
                p \in random_randint(w, random, 0, n - 1)}
       ELSE {Ok(w, current_val)}

StrAdapter_mutate(w, random, self) ==
    UNION {UNION {
        IF Len(e.ret) = 0
        THEN {Ok(Store(c.w, self, StrAdapter(<<c.ret>>)), None) :
                c \in random_choice(e.w, random, ALLOWED_CHARACTERS)}
        ELSE {Ok(Store(e.w, self, StrAdapter(e.ret)), None)} :
          e \in StrAdapter_edit(t.w, random, w.heap[self]._value, t.ret)} :
      t \in random_choice(w, random, <<0, 1, 2>>)}

\* Mutant of StrAdapter_crossover: the tail is taken from parent A too.
StrAdapter_crossover_tail_a(w, random, a, b) ==
    LET val_a == w.heap[a]._value
        val_b == w.heap[b]._value
        len_a == Len(val_a)
        len_b == Len(val_b)
    IN IF len_a = 0 THEN {Alloc(w, StrAdapter(val_b))}
       ELSE IF len_b = 0 THEN {Alloc(w, StrAdapter(val_a))}
       ELSE {Alloc(cut_point.w,
                   StrAdapter(SubSeq(val_a, 1, cut_point.ret)
                              \o SubSeq(val_a, cut_point.ret + 1, len_a))) :
               cut_point \in random_randint(w, random, 0, Min(len_a, len_b))}

StrAdapter_crossover(w, random, a, b) ==
    LET val_a == w.heap[a]._value
        val_b == w.heap[b]._value
        len_a == Len(val_a)
        len_b == Len(val_b)
    IN IF len_a = 0 THEN {Alloc(w, StrAdapter(val_b))}
       ELSE IF len_b = 0 THEN {Alloc(w, StrAdapter(val_a))}
       ELSE {Alloc(cut_point.w,
                   StrAdapter(SubSeq(val_a, 1, cut_point.ret)
                              \o SubSeq(val_b, cut_point.ret + 1, len_b))) :
               cut_point \in random_randint(w, random, 0, Min(len_a, len_b))}

StrAdapter_deep_copy(w, self) == Alloc(w, StrAdapter(w.heap[self]._value))

\* ---- ListAdapter ------------------------------------------------------
ListAdapter(inner_type, value, adapter) ==
    [kind |-> "ListAdapter", inner_type |-> inner_type, value |-> value,
     adapter |-> adapter]

\* list.insert(pos, x) and list.pop(pos), positions counted from 0
insert(l, p, x) == SubSeq(l, 1, p) \o <<x>> \o SubSeq(l, p + 1, Len(l))
pop(l, p) == SubSeq(l, 1, p) \o SubSeq(l, p + 2, Len(l))

ListAdapter_initialize(w, random, adapted_type, initial_value) ==
    LET inner_type == adapted_type.args[1]
        adapter_class == get_adapter(w, get_raw_time(inner_type))
    IN IF Raised(adapter_class) THEN {adapter_class}
       ELSE IF initial_value # None
       THEN {IF Raised(value) THEN value
             ELSE Alloc(value.w, ListAdapter(inner_type, value.ret, adapter_class.ret)) :
               value \in initialize_each(
                            w, random, adapter_class.ret, inner_type,
                            [i \in DOMAIN initial_value[1] |-> Some(initial_value[1][i])],
                            <<>>)}
       ELSE UNION {
              {IF Raised(value) THEN value
               ELSE Alloc(value.w, ListAdapter(inner_type, value.ret, adapter_class.ret)) :
                 value \in initialize_each(
                              length.w, random, adapter_class.ret, inner_type,
                              [i \in 1..length.ret |-> None], <<>>)} :
              length \in random_randint(w, random, 1, MaxLen)}

\* The element mutation, insertion or deletion of ListAdapter.mutate.
ListAdapter_edit(w, random, self, mutation_type) ==
    LET n == Len(w.heap[self].value)
    IN IF mutation_type = 0 /\ n > 0
       THEN UNION {mutate(p.w, random, w.heap[self].value[p.ret + 1]) :
                     p \in random_randint(w, random, 0, n - 1)}
       ELSE IF mutation_type = 1
       THEN UNION {
              {IF Raised(new_element) THEN new_element
               ELSE Ok(Store(new_element.w, self,
                             [new_element.w.heap[self] EXCEPT
                                 !.value = insert(@, p.ret, new_element.ret)]), None) :
                 new_element \in initialize(p.w, random, w.heap[self].adapter,
                                            w.heap[self].inner_type, None)} :
              p \in random_randint(w, random, 0, n)}
       ELSE IF mutation_type = 2 /\ n > 0
       THEN {Ok(Store(p.w, self, [p.w.heap[self] EXCEPT !.value = pop(@, p.ret)]), None) :
               p \in random_randint(w, random, 0, n - 1)}
       ELSE {Ok(w, None)}

\* if len(self.value) == 0: self.value.append(self.adapter.initialize(...))
ListAdapter_reseed(w, random, self) ==
    IF Len(w.heap[self].value) = 0
    THEN {IF Raised(new_element) THEN new_element
          ELSE Ok(Store(new_element.w, self,
                        [new_element.w.heap[self] EXCEPT
                            !.value = Append(@, new_element.ret)]), None) :
            new_element \in initialize(w, random, w.heap[self].adapter,
                                       w.heap[self].inner_type, None)}
    ELSE {Ok(w, None)}

ListAdapter_mutate(w, random, self) ==
    LET n == Len(w.heap[self].value)
        mutation_choices == IF n > 0 THEN <<0, 1, 2>> ELSE <<0, 1>>
    IN UNION {UNION {
         IF Raised(e) THEN {e} ELSE ListAdapter_reseed(e.w, random, self) :
           e \in ListAdapter_edit(t.w, random, self, t.ret)} :
         t \in random_choice(w, random, mutation_choices)}

ListAdapter_deep_copy(w, self) ==
    CHOOSE r \in {Alloc(copies.w, ListAdapter(w.heap[self].inner_type, copies.ret,
                                            w.heap[self].adapter)) :
                    copies \in {deep_copy_each(w, w.heap[self].value, <<>>)}} : TRUE

ListAdapter_crossover(w, random, a, b) ==
    LET val_a == w.heap[a].value
        val_b == w.heap[b].value
        len_a == Len(val_a)
        len_b == Len(val_b)
    IN IF len_a = 0 THEN {ListAdapter_deep_copy(w, b)}
       ELSE IF len_b = 0 THEN {ListAdapter_deep_copy(w, a)}
       ELSE {LET new_val == deep_copy_each(
                               cut_point.w,
                               SubSeq(val_a, 1, cut_point.ret)
                               \o SubSeq(val_b, cut_point.ret + 1, len_b), <<>>)
             IN Alloc(new_val.w,
                      ListAdapter(w.heap[a].inner_type, new_val.ret, w.heap[a].adapter)) :
               cut_point \in random_randint(w, random, 0, Min(len_a, len_b))}


\* ---- DictAdapter ------------------------------------------------------
\* final_dict is a Python dict: its entries in insertion order, one per key.
\* A key is a raw value or, where the code uses an adapter object as the
\* key, that object (hashed by identity).
DictAdapter(final_dict, key_type, value_type) ==
    [kind |-> "DictAdapter", final_dict |-> final_dict, key_type |-> key_type,
     value_type |-> value_type]

raw_key(x) == [tag |-> "raw", val |-> x]
object_key(a) == [tag |-> "object", val |-> a]

dict_keys(d) == [i \in DOMAIN d |-> d[i].key]
dict_has(d, key) == \E i \in DOMAIN d : d[i].key = key
dict_index(d, key) == CHOOSE i \in DOMAIN d : d[i].key = key
\* d[key] = (k, v)
dict_set(d, key, k, v) ==
    IF dict_has(d, key)
    THEN [d EXCEPT ![dict_index(d, key)] = [key |-> key, k |-> k, v |-> v]]
    ELSE Append(d, [key |-> key, k |-> k, v |-> v])
\* d.pop(key)
dict_pop(d, key) == pop(d, dict_index(d, key) - 1)

\* The entries DictAdapter.initialize creates, one per item: an item carries
\* the seeds of its key and value, or None for both.
RECURSIVE DictAdapter_fill(_, _, _, _, _, _, _, _)
DictAdapter_fill(w, random, key_type_adapter, key_type, value_type_adapter,
                 value_type, items, final_dict) ==
    IF items = <<>> THEN {Ok(w, final_dict)}
    ELSE UNION {
        IF Raised(k) THEN {k}
        ELSE UNION {
            IF Raised(v) THEN {v}
            ELSE DictAdapter_fill(
                    v.w, random, key_type_adapter, key_type, value_type_adapter,
                    value_type, Tail(items),
                    dict_set(final_dict,
                             IF Head(items).k # None THEN raw_key(Head(items).k[1])
                             ELSE raw_key(get_value(v.w.heap, k.ret)),
                             k.ret, v.ret)) :
              v \in initialize(k.w, random, value_type_adapter, value_type,
                               Head(items).v)} :
          k \in initialize(w, random, key_type_adapter, key_type, Head(items).k)}

DictAdapter_initialize(w, random, adapted_type, initial_value) ==
    LET key_type == adapted_type.args[1]
        value_type == adapted_type.args[2]
        key_type_adapter == get_adapter(w, get_raw_time(key_type))
        value_type_adapter == get_adapter(w, get_raw_time(value_type))
    IN IF Raised(key_type_adapter) THEN {key_type_adapter}
       ELSE IF Raised(value_type_adapter) THEN {value_type_adapter}
       ELSE IF initial_value # None
       THEN {IF Raised(d) THEN d
             ELSE Alloc(d.w, DictAdapter(d.ret, key_type, value_type)) :
               d \in DictAdapter_fill(
                        w, random, key_type_adapter.ret, key_type,
                        value_type_adapter.ret, value_type,
                        [i \in DOMAIN initial_value[1] |->
                            [k |-> Some(initial_value[1][i][1]),
                             v |-> Some(initial_value[1][i][2])]],
                        <<>>)}
       ELSE UNION {
              {IF Raised(d) THEN d
               ELSE Alloc(d.w, DictAdapter(d.ret, key_type, value_type)) :
                 d \in DictAdapter_fill(
                          length.w, random, key_type_adapter.ret, key_type,
                          value_type_adapter.ret, value_type,
                          [i \in 1..length.ret |-> [k |-> None, v |-> None]],
                          <<>>)} :
              length \in random_randint(w, random, 1, MaxLen)}

\* {k.get_value(): v.get_value() for k, v in self.final_dict.values()}
RECURSIVE DictAdapter_get_value(_, _, _)
DictAdapter_get_value(h, entries, value) ==
    IF entries = <<>> THEN value
    ELSE DictAdapter_get_value(
            h, Tail(entries),
            LET key == get_value(h, Head(entries).k)
                val == get_value(h, Head(entries).v)
            IN IF \E i \in DOMAIN value : value[i][1] = key
               THEN [i \in DOMAIN value |->
                        IF value[i][1] = key THEN <<key, val>> ELSE value[i]]
               ELSE Append(value, <<key, val>>))

DictAdapter_insertion(w, random, self) ==
    LET key_adapter_class == get_adapter(w, get_raw_time(w.heap[self].key_type))
        value_adapter_class == get_adapter(w, get_raw_time(w.heap[self].value_type))
    IN IF Raised(key_adapter_class) THEN {key_adapter_class}
       ELSE IF Raised(value_adapter_class) THEN {value_adapter_class}
       ELSE UNION {
              IF Raised(k_adapter) THEN {k_adapter}
              ELSE {IF Raised(v_adapter) THEN v_adapter
                    ELSE Ok(Store(v_adapter.w, self,
                                  [v_adapter.w.heap[self] EXCEPT
                                     !.final_dict =
                                        dict_set(@, raw_key(get_value(v_adapter.w.heap,
                                                                      k_adapter.ret)),
                                                 k_adapter.ret, v_adapter.ret)]), None) :
                      v_adapter \in initialize(k_adapter.w, random, value_adapter_class.ret,
                                               w.heap[self].value_type, None)} :
                k_adapter \in initialize(w, random, key_adapter_class.ret,
                                         w.heap[self].key_type, None)}

DictAdapter_mutate(w, random, self) ==
    LET current_keys == dict_keys(w.heap[self].final_dict)
        n == Len(current_keys)
        mutation_choices == IF n > 0 THEN <<2, 0, 1, 3>> ELSE <<2>>
        entry(key) == w.heap[self].final_dict[dict_index(w.heap[self].final_dict, key)]
    IN UNION {
         IF t.ret = 0 /\ n > 0
         THEN UNION {mutate(old_raw_key.w, random, entry(old_raw_key.ret).v) :
                       old_raw_key \in random_choice(t.w, random, current_keys)}
         ELSE IF t.ret = 1 /\ n > 0
         THEN UNION {
                LET k_adapter == entry(old_raw_key.ret).k
                    v_adapter == entry(old_raw_key.ret).v
                    popped == Store(old_raw_key.w, self,
                                    [w.heap[self] EXCEPT
                                        !.final_dict = dict_pop(@, old_raw_key.ret)])
                IN {IF Raised(m) THEN m
                    ELSE Ok(Store(m.w, self,
                                  [m.w.heap[self] EXCEPT
                                     !.final_dict =
                                        dict_set(@, raw_key(get_value(m.w.heap, k_adapter)),
                                                 k_adapter, v_adapter)]), None) :
                      m \in mutate(popped, random, k_adapter)} :
                old_raw_key \in random_choice(t.w, random, current_keys)}
         ELSE IF t.ret = 2
         THEN DictAdapter_insertion(t.w, random, self)
         ELSE IF t.ret = 3 /\ n > 0
         THEN {Ok(Store(raw_key_to_delete.w, self,
                        [w.heap[self] EXCEPT
                            !.final_dict = dict_pop(@, raw_key_to_delete.ret)]), None) :
                 raw_key_to_delete \in random_choice(t.w, random, current_keys)}
         ELSE {Ok(t.w, None)} :
         t \in random_choice(w, random, mutation_choices)}

\* {k: (ka.deep_copy(), va.deep_copy()) for k, (ka, va) in items}
RECURSIVE DictAdapter_copy_entries(_, _, _)
DictAdapter_copy_entries(w, entries, copied) ==
    IF entries = <<>> THEN Ok(w, copied)
    ELSE CHOOSE r \in
           {DictAdapter_copy_entries(
               va.w, Tail(entries),
               Append(copied, [key |-> Head(entries).key, k |-> ka.ret, v |-> va.ret])) :
              ka \in {deep_copy(w, Head(entries).k)},
              va \in {deep_copy(deep_copy(w, Head(entries).k).w, Head(entries).v)}} : TRUE

DictAdapter_deep_copy(w, self) ==
    CHOOSE r \in {Alloc(d.w, DictAdapter(d.ret, w.heap[self].key_type,
                                       w.heap[self].value_type)) :
                    d \in {DictAdapter_copy_entries(w, w.heap[self].final_dict, <<>>)}} : TRUE

\* The keys only one parent has: each is taken over, copied, when
\* random.random() < 0.33.
RECURSIVE DictAdapter_crossover_unique(_, _, _, _, _)
DictAdapter_crossover_unique(w, random, parent, keys, child_dict) ==
    IF keys = <<>> THEN {Ok(w, child_dict)}
    ELSE UNION {
        IF r.ret < 33
        THEN LET e == parent[dict_index(parent, Head(keys))]
                 k == deep_copy(r.w, e.k)
                 v == deep_copy(k.w, e.v)
             IN DictAdapter_crossover_unique(
                   v.w, random, parent, Tail(keys),
                   dict_set(child_dict, Head(keys), k.ret, v.ret))
        ELSE DictAdapter_crossover_unique(r.w, random, parent, Tail(keys), child_dict) :
          r \in random_random(w, random)}

\* The keys both parents have: the values are crossed over, and the entry is
\* stored under the key adapter of parent a (child_dict[k], not
\* child_dict[key]).
RECURSIVE DictAdapter_crossover_common(_, _, _, _, _, _)
DictAdapter_crossover_common(w, random, dict_a, dict_b, keys, child_dict) ==
    IF keys = <<>> THEN {Ok(w, child_dict)}
    ELSE UNION {
        IF Raised(v) THEN {v}
        ELSE LET k == dict_a[dict_index(dict_a, Head(keys))].k
                 k_copy == deep_copy(v.w, k)
                 v_copy == deep_copy(k_copy.w, v.ret)
             IN DictAdapter_crossover_common(
                   v_copy.w, random, dict_a, dict_b, Tail(keys),
                   dict_set(child_dict, object_key(k), k_copy.ret, v_copy.ret)) :
          v \in crossover(w, random,
                          dict_a[dict_index(dict_a, Head(keys))].v,
                          dict_b[dict_index(dict_b, Head(keys))].v)}

DictAdapter_crossover(w, random, a, b) ==
    LET dict_a == w.heap[a].final_dict
        dict_b == w.heap[b].final_dict
        in_a(key) == dict_has(dict_a, key)
        in_b(key) == dict_has(dict_b, key)
        not_in_a(key) == ~dict_has(dict_a, key)
        not_in_b(key) == ~dict_has(dict_b, key)
        unique_a == SelectSeq(dict_keys(dict_a), not_in_b)
        unique_b == SelectSeq(dict_keys(dict_b), not_in_a)
        common_keys == SelectSeq(dict_keys(dict_a), in_b)
    IN UNION {UNION {
         {IF Raised(c3) THEN c3
          ELSE Alloc(c3.w, DictAdapter(c3.ret, w.heap[a].key_type, w.heap[a].value_type)) :
            c3 \in DictAdapter_crossover_common(c2.w, random, dict_a, dict_b,
                                                common_keys, c2.ret)} :
           c2 \in DictAdapter_crossover_unique(c1.w, random, dict_b, unique_b, c1.ret)} :
         c1 \in DictAdapter_crossover_unique(w, random, dict_a, unique_a, <<>>)}

\* ---- dispatch on the adapter class ------------------------------------
initialize(w, random, adapter, adapted_type, initial_value) ==
    CASE adapter = "BoolAdapter" -> BoolAdapter_initialize(w, random, adapted_type, initial_value)
      [] adapter = "IntAdapter" -> IntAdapter_initialize(w, random, adapted_type, initial_value)
      [] adapter = "FloatAdapter" -> FloatAdapter_initialize(w, random, adapted_type, initial_value)
      [] adapter = "StrAdapter" -> StrAdapter_initialize(w, random, adapted_type, initial_value)
      [] adapter = "ListAdapter" -> ListAdapter_initialize(w, random, adapted_type, initial_value)
      [] adapter = "DictAdapter" -> DictAdapter_initialize(w, random, adapted_type, initial_value)

get_value(h, self) ==
    CASE h[self].kind = "BoolAdapter" -> h[self].value
      [] h[self].kind = "IntAdapter" -> int(h[h[self].value].data[I_VALUE + 1])
      [] h[self].kind = "StrAdapter" -> h[self]._value
      [] h[self].kind = "ListAdapter" ->
            [i \in DOMAIN h[self].value |-> get_value(h, h[self].value[i])]
      [] h[self].kind = "DictAdapter" ->
            DictAdapter_get_value(h, h[self].final_dict, <<>>)

mutate(w, random, self) ==
    CASE w.heap[self].kind = "BoolAdapter" -> BoolAdapter_mutate(w, random, self)
      [] w.heap[self].kind = "IntAdapter" -> IntAdapter_mutate(w, random, self)
      [] w.heap[self].kind = "StrAdapter" -> StrAdapter_mutate(w, random, self)
      [] w.heap[self].kind = "ListAdapter" -> ListAdapter_mutate(w, random, self)
      [] w.heap[self].kind = "DictAdapter" -> DictAdapter_mutate(w, random, self)

\* ia.__class__.crossover(random, ia, ib)
crossover(w, random, a, b) ==
    CASE w.heap[a].kind = "BoolAdapter" -> BoolAdapter_crossover(w, random, a, b)
      [] w.heap[a].kind = "IntAdapter" -> IntAdapter_crossover(w, random, a, b)
      [] w.heap[a].kind = "StrAdapter" -> StrAdapter_crossover(w, random, a, b)
      [] w.heap[a].kind = "ListAdapter" -> ListAdapter_crossover(w, random, a, b)
      [] w.heap[a].kind = "DictAdapter" -> DictAdapter_crossover(w, random, a, b)

deep_copy(w, self) ==
    CASE w.heap[self].kind = "BoolAdapter" -> BoolAdapter_deep_copy(w, self)
      [] w.heap[self].kind = "IntAdapter" -> IntAdapter_deep_copy(w, self)
      [] w.heap[self].kind = "StrAdapter" -> StrAdapter_deep_copy(w, self)
      [] w.heap[self].kind = "ListAdapter" -> ListAdapter_deep_copy(w, self)
      [] w.heap[self].kind = "DictAdapter" -> DictAdapter_deep_copy(w, self)


(***************************************************************************)
(* ArgsDispatcher: the genome of one argument tuple                        *)
(***************************************************************************)
\* The default value of __init__'s mutation_probability parameter,
\* MutableProbability(0.2, 0.02), is evaluated once, when the class body is
\* executed: it is one object, at this address from the start.
ArgsDispatcher_default_mutation_probability == 1

ArgsDispatcher(args, mutation_probability) ==
    [kind |-> "ArgsDispatcher", args |-> args,
     mutation_probability |-> mutation_probability]

\* The parameters of fn: its annotations without 'return'.
parameters(annotations) ==
    LET is_parameter(p) == p.name # "return"
    IN SelectSeq(annotations, is_parameter)

\* initial_guesses.pop(arg_name, None)
guess(initial_guesses, arg_name) ==
    IF arg_name \in DOMAIN initial_guesses THEN Some(initial_guesses[arg_name]) ELSE None

RECURSIVE ArgsDispatcher_initialize_args(_, _, _, _, _)
ArgsDispatcher_initialize_args(w, random, annotations, initial_guesses, args) ==
    IF annotations = <<>> THEN {Ok(w, args)}
    ELSE LET adapted_type == Head(annotations).type
             adapter == get_adapter(w, get_raw_time(adapted_type))
         IN IF Raised(adapter) THEN {adapter}
            ELSE UNION {
                   IF Raised(a) THEN {a}
                   ELSE ArgsDispatcher_initialize_args(
                           a.w, random, Tail(annotations), initial_guesses,
                           Append(args, a.ret)) :
                     a \in initialize(w, random, adapter.ret, adapted_type,
                                      guess(initial_guesses, Head(annotations).name))}

ArgsDispatcher_initialize(w, random, annotations, initial_guesses) ==
    {IF Raised(args) THEN args
     ELSE Alloc(args.w, ArgsDispatcher(args.ret,
                                       ArgsDispatcher_default_mutation_probability)) :
       args \in ArgsDispatcher_initialize_args(w, random, parameters(annotations),
                                               initial_guesses, <<>>)}

ArgsDispatcher_get_args(h, self) ==
    [i \in DOMAIN h[self].args |-> get_value(h, h[self].args[i])]

\* for arg in self.args: if self.mutation_probability.event(random): arg.mutate(random)
RECURSIVE ArgsDispatcher_mutate_args(_, _, _, _)
ArgsDispatcher_mutate_args(w, random, self, i) ==
    IF i > Len(w.heap[self].args) THEN {Ok(w, None)}
    ELSE UNION {
           IF e.ret
           THEN UNION {IF Raised(m) THEN {m}
                       ELSE ArgsDispatcher_mutate_args(m.w, random, self, i + 1) :
                         m \in mutate(e.w, random, w.heap[self].args[i])}
           ELSE ArgsDispatcher_mutate_args(e.w, random, self, i + 1) :
             e \in MutableProbability_event(w, random, w.heap[self].mutation_probability)}

ArgsDispatcher_mutate(w, random, self) ==
    UNION {ArgsDispatcher_mutate_args(p.w, random, self, 1) :
             p \in MutableProbability_mutate(w, random, w.heap[self].mutation_probability)}

\* for ia, ib in zip(a.args, b.args): new_list.append(ia.__class__.crossover(...))
RECURSIVE ArgsDispatcher_crossover_args(_, _, _, _, _, _)
ArgsDispatcher_crossover_args(w, random, a, b, i, new_list) ==
    IF i > Min(Len(w.heap[a].args), Len(w.heap[b].args)) THEN {Ok(w, new_list)}
    ELSE UNION {
           IF Raised(c) THEN {c}
           ELSE ArgsDispatcher_crossover_args(c.w, random, a, b, i + 1,
                                              Append(new_list, c.ret)) :
             c \in crossover(w, random, w.heap[a].args[i], w.heap[b].args[i])}

\* Mutant of ArgsDispatcher_crossover: the child is built without its first
\* adapter.
ArgsDispatcher_crossover_short(w, random, a, b) ==
    UNION {{IF Raised(new_list) THEN new_list
            ELSE Alloc(new_list.w, ArgsDispatcher(new_list.ret, mp.ret)) :
              new_list \in ArgsDispatcher_crossover_args(mp.w, random, a, b, 2, <<>>)} :
           mp \in MutableProbability_crossover(w, random,
                                               w.heap[a].mutation_probability,
                                               w.heap[b].mutation_probability)}

ArgsDispatcher_crossover(w, random, a, b) ==
    UNION {{IF Raised(new_list) THEN new_list
            ELSE Alloc(new_list.w, ArgsDispatcher(new_list.ret, mp.ret)) :
              new_list \in ArgsDispatcher_crossover_args(mp.w, random, a, b, 1, <<>>)} :
           mp \in MutableProbability_crossover(w, random,
                                               w.heap[a].mutation_probability,
                                               w.heap[b].mutation_probability)}

(***************************************************************************)
(* InputBag: an individual is a bag of argument dispatchers                *)
(***************************************************************************)
\* The default value of Individual.__init__'s mutation_probability
\* parameter, MutableProbability(0.1, 0.01): one object, at this address.
InputBagIndividual_default_mutation_probability == 2

InputBagIndividual(args_dispatchers, mutation_probability) ==
    [kind |-> "Individual", args_dispatchers |-> args_dispatchers,
     mutation_probability |-> mutation_probability]

\* [ArgsDispatcher.initialize(random, self.function) for _ in range(num_inputs)]
RECURSIVE initialize_dispatchers(_, _, _, _, _)
initialize_dispatchers(w, random, annotations, num_inputs, dispatchers) ==
    IF num_inputs = 0 THEN {Ok(w, dispatchers)}
    ELSE UNION {
           IF Raised(d) THEN {d}
           ELSE initialize_dispatchers(d.w, random, annotations, num_inputs - 1,
                                       Append(dispatchers, d.ret)) :
             d \in ArgsDispatcher_initialize(w, random, annotations, <<>>)}

\* InputBag.run: generate_individual
generate_individual(w, random, annotations, num_inputs) ==
    {IF Raised(d) THEN d
     ELSE Alloc(d.w, InputBagIndividual(d.ret,
                                        InputBagIndividual_default_mutation_probability)) :
       d \in initialize_dispatchers(w, random, annotations, num_inputs, <<>>)}

Individual_get_args(h, self) ==
    [i \in DOMAIN h[self].args_dispatchers |->
        ArgsDispatcher_get_args(h, h[self].args_dispatchers[i])]

RECURSIVE Individual_mutate_dispatchers(_, _, _, _)
Individual_mutate_dispatchers(w, random, self, i) ==
    IF i > Len(w.heap[self].args_dispatchers) THEN {Ok(w, None)}
    ELSE UNION {
           IF e.ret
           THEN UNION {IF Raised(m) THEN {m}
                       ELSE Individual_mutate_dispatchers(m.w, random, self, i + 1) :
                         m \in ArgsDispatcher_mutate(e.w, random,
                                                     w.heap[self].args_dispatchers[i])}
           ELSE Individual_mutate_dispatchers(e.w, random, self, i + 1) :
             e \in MutableProbability_event(w, random, w.heap[self].mutation_probability)}

Individual_mutate(w, random, self) ==
    UNION {Individual_mutate_dispatchers(p.w, random, self, 1) :
             p \in MutableProbability_mutate(w, random, w.heap[self].mutation_probability)}

RECURSIVE Individual_crossover_dispatchers(_, _, _, _, _, _)
Individual_crossover_dispatchers(w, random, a, b, i, crossed) ==
    IF i > Min(Len(w.heap[a].args_dispatchers), Len(w.heap[b].args_dispatchers))
    THEN {Ok(w, crossed)}
    ELSE UNION {
           IF Raised(c) THEN {c}
           ELSE Individual_crossover_dispatchers(c.w, random, a, b, i + 1,
                                                 Append(crossed, c.ret)) :
             c \in ArgsDispatcher_crossover(w, random, w.heap[a].args_dispatchers[i],
                                            w.heap[b].args_dispatchers[i])}

\* Mutant of Individual_crossover: the child's bag lacks its first genome.
Individual_crossover_short(w, random, a, b) ==
    UNION {{IF Raised(crossed) THEN crossed
            ELSE Alloc(crossed.w, InputBagIndividual(crossed.ret, mp.ret)) :
              crossed \in Individual_crossover_dispatchers(mp.w, random, a, b, 2, <<>>)} :
           mp \in MutableProbability_crossover(w, random,
                                               w.heap[a].mutation_probability,
                                               w.heap[b].mutation_probability)}

Individual_crossover(w, random, a, b) ==
    UNION {{IF Raised(crossed) THEN crossed
            ELSE Alloc(crossed.w, InputBagIndividual(crossed.ret, mp.ret)) :
              crossed \in Individual_crossover_dispatchers(mp.w, random, a, b, 1, <<>>)} :
           mp \in MutableProbability_crossover(w, random,
                                               w.heap[a].mutation_probability,
                                               w.heap[b].mutation_probability)}

(***************************************************************************)
(* The whole state of an object: its fields, with the state of every       *)
(* object it holds in place of its address.                                *)
(***************************************************************************)
RECURSIVE DeepValue(_, _)
DeepValue(h, a) ==
    CASE h[a].kind = "MutableProbability" -> h[a]
      [] h[a].kind = "ndarray" -> h[a]
      [] h[a].kind = "BoolAdapter" -> h[a]
      [] h[a].kind = "StrAdapter" -> h[a]
      [] h[a].kind = "IntAdapter" -> [h[a] EXCEPT !.value = DeepValue(h, @)]
      [] h[a].kind = "ListAdapter" ->
            [h[a] EXCEPT !.value = [i \in DOMAIN @ |-> DeepValue(h, @[i])]]
      [] h[a].kind = "DictAdapter" ->
            [h[a] EXCEPT !.final_dict =
                [i \in DOMAIN @ |-> [key |-> @[i].key,
                                     k |-> DeepValue(h, @[i].k),
                                     v |-> DeepValue(h, @[i].v)]]]
      [] h[a].kind = "ArgsDispatcher" ->
            [h[a] EXCEPT !.args = [i \in DOMAIN @ |-> DeepValue(h, @[i])],
                         !.mutation_probability = DeepValue(h, @)]
      [] h[a].kind = "Individual" ->
            [h[a] EXCEPT !.args_dispatchers = [i \in DOMAIN @ |-> DeepValue(h, @[i])],
                         !.mutation_probability = DeepValue(h, @)]


(***************************************************************************)
(* SpecGenome: genomes are created for one function, mutated, crossed over *)
(* and copied.  Each operation is handed a seeded random source, with any  *)
(* of the streams.                                                         *)
(***************************************************************************)
int_type == Type("int", <<>>)
bool_type == Type("bool", <<>>)
str_type == Type("str", <<>>)
float_type == Type("float", <<>>)
list_type(t) == Type("list", <<t>>)
dict_type(k, v) == Type("dict", <<k, v>>)
Parameter(name, type) == [name |-> name, type |-> type]

\* type_adapter/test.py: def fn(a: int, b: bool, c: list[int], d: list[bool],
\*                              e: list[dict[int, bool]])
test_fn ==
    <<Parameter("a", int_type), Parameter("b", bool_type),
      Parameter("c", list_type(int_type)), Parameter("d", list_type(bool_type)),
      Parameter("e", list_type(dict_type(int_type, bool_type)))>>

\* The functions under test, each with the initial guesses a caller may pass
\* to ArgsDispatcher.initialize in place of none.
Functions ==
    <<[annotations |-> test_fn, initial_guesses |-> <<>>],
      [annotations |-> <<Parameter("a", int_type)>>,
       initial_guesses |-> [a |-> 0]],
      [annotations |-> <<Parameter("a", int_type), Parameter("s", str_type),
                         Parameter("return", bool_type)>>,
       initial_guesses |-> [s |-> <<>>]],
      [annotations |-> <<Parameter("b", bool_type)>>,
       initial_guesses |-> [b |-> TRUE]],
      [annotations |-> <<Parameter("b", bool_type), Parameter("x", float_type)>>,
       initial_guesses |-> [b |-> FALSE]],
      [annotations |-> <<Parameter("c", list_type(int_type))>>,
       initial_guesses |-> [c |-> <<>>]],
      [annotations |-> <<Parameter("d", list_type(bool_type))>>,
       initial_guesses |-> [d |-> <<TRUE>>]],
      [annotations |-> <<Parameter("m", dict_type(int_type, int_type))>>,
       initial_guesses |-> [m |-> << <<1, 2>> >>]],
      [annotations |-> <<Parameter("m", dict_type(int_type, bool_type))>>,
       initial_guesses |-> [m |-> << <<1, TRUE>>, <<2, TRUE>> >>]],
      [annotations |-> <<Parameter("b", bool_type)>>,
       initial_guesses |-> [b |-> FALSE]]>>

\* InputBag.run / NovelSearch.run: new_individual_probability, created by
\* the run.
new_individual_probability == 3

GenomeInit ==
    /\ strategy = "none"
    /\ cls = "line"
    /\ settings \in [num_inputs : 1..MaxInputs]
    /\ pc = "idle"
    /\ population = <<>>
    /\ parents = <<>>
    /\ offspring_cs = <<>>
    /\ offspring = <<>>
    /\ num_generations = 0
    /\ num_evaluations = 0
    /\ current_coverage = None
    /\ log_step = 0
    /\ log = <<>>
    /\ score = None
    /\ next_candidate = 1
    /\ ra = None /\ rb = None /\ rc = None /\ out = None /\ batch = <<>>
    /\ heap = <<MutableProbability(20, 2), MutableProbability(10, 1),
                MutableProbability(10, 1)>>
    /\ stream = <<>>
    /\ pos = 0
    /\ \E i \in DOMAIN Functions : fn = Functions[i]
    /\ registry \in {DefaultAdapters, DefaultAdapters \cup {"DictAdapter"}}
    /\ roots = <<>>
    /\ calls = 0
    /\ last = [op |-> "none"]
    /\ returned = <<>>

Root(ref, origin, of) == [ref |-> ref, origin |-> origin, of |-> of]
Operation(op, target, exc, seeded) ==
    [op |-> op, target |-> target, exc |-> exc, seeded |-> seeded]

IsGenome(h, a) == h[a].kind \in {"ArgsDispatcher", "Individual"}
IsAdapter(h, a) ==
    h[a].kind \in {"BoolAdapter", "IntAdapter", "StrAdapter", "ListAdapter", "DictAdapter"}

\* The objects an object holds, itself included.
RECURSIVE Reach(_, _)
Reach(h, a) ==
    {a} \cup
    CASE h[a].kind = "IntAdapter" -> {h[a].value}
      [] h[a].kind = "ListAdapter" -> UNION {Reach(h, x) : x \in Range(h[a].value)}
      [] h[a].kind = "DictAdapter" ->
            UNION {Reach(h, h[a].final_dict[i].k) \cup Reach(h, h[a].final_dict[i].v) :
                     i \in DOMAIN h[a].final_dict}
      [] h[a].kind = "ArgsDispatcher" ->
            {h[a].mutation_probability} \cup UNION {Reach(h, x) : x \in Range(h[a].args)}
      [] h[a].kind = "Individual" ->
            {h[a].mutation_probability}
            \cup UNION {Reach(h, x) : x \in Range(h[a].args_dispatchers)}
      [] OTHER -> {}

\* The adapters the program reaches: those of a dispatcher it holds and the
\* copies it made, with the adapters these are made of.
Adapters ==
    {a \in UNION {Reach(heap, roots[i].ref) :
                    i \in {j \in DOMAIN roots : heap[roots[j].ref].kind # "Individual"}} :
       IsAdapter(heap, a)}

GenomeFrame ==
    /\ UNCHANGED <<stream, pos, fn, registry, returned>>
    /\ UNCHANGED <<strategy, cls, settings, pc, population, parents, offspring_cs,
                   offspring, num_generations, num_evaluations, current_coverage,
                   log_step, log, score, next_candidate>>
    /\ UNCHANGED cov_vars

\* ArgsDispatcher.initialize(random, fn, initial_guesses)
GInitialize ==
    /\ calls < MaxOps
    /\ \E seeded \in BOOLEAN, s \in Streams :
         \E o \in ArgsDispatcher_initialize(
                     World(heap, s, 0), "rand", fn.annotations,
                     IF seeded THEN fn.initial_guesses ELSE <<>>) :
            /\ heap' = o.w.heap
            /\ roots' = IF Raised(o) THEN roots
                        ELSE Append(roots, Root(o.ret, IF seeded THEN "seeded"
                                                       ELSE "initialize", <<>>))
            /\ last' = Operation("initialize", IF Raised(o) THEN 0 ELSE o.ret,
                                 o.exc, seeded)
    /\ calls' = calls + 1
    /\ GenomeFrame

\* InputBag.run: generate_individual(random, args)
GGenerate ==
    /\ calls < MaxOps
    /\ \E s \in Streams :
         \E o \in generate_individual(World(heap, s, 0), "rand",
                                      fn.annotations, settings.num_inputs) :
            /\ heap' = o.w.heap
            /\ roots' = IF Raised(o) THEN roots
                        ELSE Append(roots, Root(o.ret, "generate", <<>>))
            /\ last' = Operation("generate", IF Raised(o) THEN 0 ELSE o.ret,
                                 o.exc, FALSE)
    /\ calls' = calls + 1
    /\ GenomeFrame

\* x.mutate(random), x a genome or an adapter
mutate_any(w, random, self) ==
    IF w.heap[self].kind = "ArgsDispatcher" THEN ArgsDispatcher_mutate(w, random, self)
    ELSE IF w.heap[self].kind = "Individual" THEN Individual_mutate(w, random, self)
    ELSE mutate(w, random, self)

GMutate ==
    /\ calls < MaxOps
    /\ \E self \in {roots[i].ref : i \in DOMAIN roots} \cup Adapters, s \in Streams :
         \E o \in mutate_any(World(heap, s, 0), "rand", self) :
            /\ heap' = o.w.heap
            /\ last' = Operation("mutate", self, o.exc, FALSE)
    /\ roots' = roots
    /\ calls' = calls + 1
    /\ GenomeFrame

\* ArgsDispatcher.crossover(random, a, b) / Individual.crossover(random, a, b)
crossover_any(w, random, a, b) ==
    IF w.heap[a].kind = "ArgsDispatcher" THEN ArgsDispatcher_crossover(w, random, a, b)
    ELSE Individual_crossover(w, random, a, b)

GCrossover ==
    /\ calls < MaxOps
    /\ \E i, j \in DOMAIN roots :
         /\ IsGenome(heap, roots[i].ref)
         /\ heap[roots[i].ref].kind = heap[roots[j].ref].kind
         /\ \E s \in Streams :
            \E o \in crossover_any(World(heap, s, 0), "rand",
                                   roots[i].ref, roots[j].ref) :
               /\ heap' = o.w.heap
               /\ roots' = IF Raised(o) THEN roots
                           ELSE Append(roots, Root(o.ret, "crossover",
                                                   <<roots[i].ref, roots[j].ref>>))
               /\ last' = Operation("crossover", IF Raised(o) THEN 0 ELSE o.ret,
                                    o.exc, FALSE)
    /\ calls' = calls + 1
    /\ GenomeFrame

\* a.deep_copy(), a an adapter
GDeepCopy ==
    /\ calls < MaxOps
    /\ \E a \in Adapters :
         \E o \in {deep_copy(World(heap, stream, pos), a)} :
            /\ heap' = o.w.heap
            /\ roots' = Append(roots, Root(o.ret, "deep_copy", <<a>>))
            /\ last' = Operation("deep_copy", o.ret, o.exc, FALSE)
    /\ calls' = calls + 1
    /\ GenomeFrame

\* generate_individual of InputBag.run (a bag) and of NovelSearch.run (one
\* argument dispatcher)
generate_any(w, random, kind) ==
    IF kind = "Individual"
    THEN generate_individual(w, random, fn.annotations, settings.num_inputs)
    ELSE ArgsDispatcher_initialize(w, random, fn.annotations, <<>>)

\* while random.random() > 0.5: candidates[i].mutate(random), for at most
\* `repeats` more rounds
RECURSIVE mutate_while(_, _, _, _)
mutate_while(w, random, candidate, repeats) ==
    UNION {
      IF r.ret > Fixed(1) \div 2
      THEN IF repeats = 0 THEN {}
           ELSE UNION {IF Raised(m) THEN {m}
                       ELSE mutate_while(m.w, random, candidate, repeats - 1) :
                         m \in mutate_any(r.w, random, candidate)}
      ELSE {Ok(r.w, candidate)} :
        r \in random_random(w, random)}

\* mutate_operator of InputBag.run and NovelSearch.run, for one candidate:
\* now and then the candidate is replaced by a new individual; then it is
\* mutated once, and again while random.random() > 0.5.  The result is the
\* candidate the list holds in the end.
mutate_operator(w, random, candidate) ==
    UNION {UNION {
       IF Raised(c) THEN {c}
       ELSE UNION {IF Raised(m) THEN {m}
                   ELSE mutate_while(m.w, random, c.ret, MaxRepeats) :
                     m \in mutate_any(c.w, random, c.ret)} :
         c \in IF e.ret THEN generate_any(e.w, random, w.heap[candidate].kind)
                ELSE {Ok(e.w, candidate)}} :
       e \in MutableProbability_event(w, random, new_individual_probability)}

GMutateOperator ==
    /\ calls < MaxOps
    /\ \E i \in DOMAIN roots :
         /\ IsGenome(heap, roots[i].ref)
         /\ \E s \in Streams :
            \E o \in mutate_operator(World(heap, s, 0), "rand", roots[i].ref) :
               /\ heap' = o.w.heap
               /\ roots' = IF Raised(o) \/ o.ret = roots[i].ref THEN roots
                           ELSE Append(roots, Root(o.ret, "replace", <<roots[i].ref>>))
               /\ last' = Operation("mutate_operator",
                                    IF Raised(o) THEN 0 ELSE o.ret, o.exc, FALSE)
    /\ calls' = calls + 1
    /\ GenomeFrame

GenomeNext ==
    \/ GInitialize
    \/ GGenerate
    \/ GMutate
    \/ GMutateOperator
    \/ GCrossover
    \/ GDeepCopy

SpecGenome == GenomeInit /\ [][GenomeNext]_vars

(***************************************************************************)
(* Properties of the genomes                                               *)
(***************************************************************************)
\* The step is a mutate call on a genome.
MutatesGenome ==
    /\ calls' = calls + 1
    /\ last'.op = "mutate"
    /\ IsGenome(heap, last'.target)

\* C12: a mutate call on one genome (ArgsDispatcher.mutate, Individual.mutate)
\* leaves the whole state of every other genome as it was, the mutation rate
\* included.
C12_MutateChangesOneGenome ==
    [][MutatesGenome =>
         \A i \in DOMAIN roots :
            (IsGenome(heap, roots[i].ref) /\ roots[i].ref # last'.target)
               => DeepValue(heap', roots[i].ref) = DeepValue(heap, roots[i].ref)]_vars

\* The step is a deep_copy of adapter a.
Copies(a) ==
    /\ calls' = calls + 1
    /\ last'.op = "deep_copy"
    /\ roots'[Len(roots')].of = <<a>>

\* The step is a mutate call on x or on an object x holds.
MutatesWithin(x) ==
    /\ calls' = calls + 1
    /\ last'.op = "mutate"
    /\ last'.target \in Reach(heap, x)

\* C14: a deep copy has the value of the adapter it was made from, making it
\* leaves that adapter as it was, and so does every mutate call on the copy
\* or on an adapter the copy holds.
C14_DeepCopyIsIndependent ==
    [][/\ \A a \in Adapters :
            Copies(a) => /\ get_value(heap', last'.target) = get_value(heap, a)
                         /\ DeepValue(heap', a) = DeepValue(heap, a)
       /\ \A i \in DOMAIN roots :
            (roots[i].origin = "deep_copy" /\ MutatesWithin(roots[i].ref))
               => DeepValue(heap', roots[i].of[1]) = DeepValue(heap, roots[i].of[1])]_vars

\* A copy was mutated, and its value is no longer that of the adapter it was
\* made from.
C14_Witness ==
    /\ last.op = "mutate"
    /\ \E i \in DOMAIN roots :
         /\ roots[i].origin = "deep_copy"
         /\ last.target = roots[i].ref
         /\ get_value(heap, roots[i].ref) # get_value(heap, roots[i].of[1])

\* The step is a crossover call.
Crosses ==
    /\ calls' = calls + 1
    /\ last'.op = "crossover"

\* C15: a crossover leaves every genome there is, the two parents among them,
\* as it was (the adapters of a genome are crossed over by the crossover of
\* their class), and no mutate call on the child or on an adapter the child
\* holds changes a parent.
C15_CrossoverChildIsIndependent ==
    [][/\ Crosses => \A i \in DOMAIN roots :
                        DeepValue(heap', roots[i].ref) = DeepValue(heap, roots[i].ref)
       /\ \A i \in DOMAIN roots :
            (roots[i].origin = "crossover" /\ MutatesWithin(roots[i].ref))
               => \A parent \in Range(roots[i].of) :
                     DeepValue(heap', parent) = DeepValue(heap, parent)]_vars

\* The child of a crossover of argument dispatchers was mutated, and its
\* arguments are those of neither parent.
C15_Witness ==
    /\ last.op = "mutate"
    /\ last.exc = ""
    /\ \E i \in DOMAIN roots :
         /\ roots[i].origin = "crossover"
         /\ heap[roots[i].ref].kind = "ArgsDispatcher"
         /\ last.target \in Reach(heap, roots[i].ref)
         /\ \A parent \in Range(roots[i].of) :
               ArgsDispatcher_get_args(heap, roots[i].ref)
                  # ArgsDispatcher_get_args(heap, parent)

\* C16: after a mutate call on a StrAdapter or a ListAdapter, whatever the
\* value it started from, the adapter's value has at least one element.
C16_MutateLeavesNonEmpty ==
    [][(/\ calls' = calls + 1
        /\ last'.op = "mutate"
        /\ heap[last'.target].kind \in {"StrAdapter", "ListAdapter"})
          => Len(get_value(heap', last'.target)) >= 1]_vars

\* The adapter class the registry gives for a parameter type.
adapter_class(adapted_type) ==
    get_adapter(World(heap, stream, pos), get_raw_time(adapted_type)).ret

\* C18: every argument dispatcher there is, however it was produced, holds
\* one adapter per parameter of the function, in the order of declaration,
\* each of the adapter class of its parameter's type.
C18_OneAdapterPerParameter ==
    \A g \in DOMAIN heap :
       heap[g].kind = "ArgsDispatcher" =>
          /\ Len(heap[g].args) = Len(parameters(fn.annotations))
          /\ \A i \in DOMAIN heap[g].args :
                heap[heap[g].args[i]].kind
                   = adapter_class(parameters(fn.annotations)[i].type)

\* The child of a crossover of two dispatchers for a function of two
\* parameters has been mutated.
C18_Witness ==
    /\ last.op = "mutate"
    /\ last.exc = ""
    /\ Len(parameters(fn.annotations)) >= 2
    /\ \E i \in DOMAIN roots :
         /\ roots[i].origin = "crossover"
         /\ roots[i].ref = last.target
         /\ heap[last.target].kind = "ArgsDispatcher"

\* C19: every individual of InputBag there is holds num_inputs argument
\* dispatchers: as generated, as the child of Individual.crossover, after
\* Individual.mutate, and as the new individual the mutate operator puts in
\* the place of a candidate.
C19_BagHoldsNumInputs ==
    \A g \in DOMAIN heap :
       heap[g].kind = "Individual" =>
          Len(heap[g].args_dispatchers) = settings.num_inputs

\* The mutate operator has replaced the child of a crossover of two bags of
\* two genomes by a new individual, and mutated that.
C19_Witness ==
    /\ settings.num_inputs >= 2
    /\ last.op = "mutate_operator"
    /\ \E i, j \in DOMAIN roots :
         /\ roots[i].origin = "replace"
         /\ roots[i].ref = last.target
         /\ heap[last.target].kind = "Individual"
         /\ roots[j].ref = roots[i].of[1]
         /\ roots[j].origin = "crossover"

\* C20: for the function of the test (parameters int, bool, list[int],
\* list[bool] and list[dict[int, bool]]), ArgsDispatcher.initialize with the
\* default registry and no initial guesses returns a genome.
C20_InitializeOfTestFnSucceeds ==
    (/\ last.op = "initialize"
     /\ ~last.seeded
     /\ fn.annotations = test_fn
     /\ registry = DefaultAdapters)
       => last.exc = ""

(***************************************************************************)
(* SpecRuns: run() is called twice, one call after the other in one        *)
(* process, for the same function and the same settings.  The objects      *)
(* that exist before the first call (the default arguments of the two      *)
(* __init__, the generator of the random module) are there for both.  A    *)
(* run of NovelSearch or InputBag is followed through one generation of a  *)
(* population of one; what it returns is taken from the genomes it made.   *)
(***************************************************************************)
NumRuns == 2

RunsInit ==
    /\ strategy \in {"random", "novel", "bag"}
    /\ cls = "line"
    /\ settings \in [num_inputs : 1..MaxInputs]
    /\ pc = "idle"
    /\ population = <<>>
    /\ parents = <<>>
    /\ offspring_cs = <<>>
    /\ offspring = <<>>
    /\ num_generations = 0
    /\ num_evaluations = 0
    /\ current_coverage = None
    /\ log_step = 0
    /\ log = <<>>
    /\ score = None
    /\ next_candidate = 1
    /\ ra = None /\ rb = None /\ rc = None /\ out = None /\ batch = <<>>
    /\ heap = <<MutableProbability(20, 2), MutableProbability(10, 1),
                MutableProbability(10, 1)>>
    /\ stream \in Streams
    /\ pos = 0
    /\ fn \in {Functions[2], Functions[3]}
    /\ registry = DefaultAdapters
    /\ roots = <<>>
    /\ calls = 0
    /\ last = [op |-> "none"]
    /\ returned = <<>>

RunsFrame ==
    /\ UNCHANGED <<stream, fn, registry>>
    /\ UNCHANGED <<strategy, cls, settings, population, parents, offspring_cs,
                   offspring, num_generations, num_evaluations, current_coverage,
                   log_step, log, score, next_candidate>>
    /\ UNCHANGED cov_vars

\* The arguments of a genome: ArgsDispatcher.get_args / Individual.get_args
get_args(h, g) ==
    IF h[g].kind = "Individual" THEN Individual_get_args(h, g)
    ELSE ArgsDispatcher_get_args(h, g)

\* RandomStrategy.run: rand is seeded and never used; the individual is
\* initialised from `random`, the module.
RandomStrategy_run(w) ==
    {IF Raised(individual) THEN individual
     ELSE Ok(individual.w, Individual_get_args(individual.w.heap, individual.ret)) :
       individual \in generate_individual(w, "module", fn.annotations,
                                          settings.num_inputs)}

RunRandom ==
    /\ strategy = "random"
    /\ pc = "idle"
    /\ calls < NumRuns
    /\ \E o \in RandomStrategy_run(World(heap, stream, 0)) :
         /\ heap' = o.w.heap
         /\ returned' = Append(returned, IF Raised(o) THEN o.exc ELSE o.ret)
         /\ last' = Operation("run", 0, o.exc, FALSE)
    /\ calls' = calls + 1
    /\ UNCHANGED <<pc, pos, roots>>
    /\ RunsFrame

\* NovelSearch.run / InputBag.run: rand = Random(); rand.seed(2347);
\* new_individual_probability = MutableProbability(0.1, 0.01), a new object
\* (it takes the place of the one of the run before).
RunSeed ==
    /\ strategy \in {"novel", "bag"}
    /\ pc = "idle"
    /\ calls < NumRuns
    /\ pos' = 0
    /\ heap' = [heap EXCEPT ![new_individual_probability] = MutableProbability(10, 1)]
    /\ roots' = <<>>
    /\ pc' = "generate"
    /\ last' = Operation("seed", 0, "", FALSE)
    /\ UNCHANGED <<calls, returned>>
    /\ RunsFrame

\* ea.evolve: the generator makes the initial population.
RunGenerate ==
    /\ pc = "generate"
    /\ \E o \in generate_any(World(heap, stream, pos), "rand",
                             IF strategy = "bag" THEN "Individual" ELSE "ArgsDispatcher") :
         /\ heap' = o.w.heap
         /\ pos' = o.w.pos
         /\ roots' = IF Raised(o) THEN roots ELSE <<Root(o.ret, "generate", <<>>)>>
         /\ pc' = IF Raised(o) THEN "return" ELSE "vary"
         /\ last' = Operation("generate", IF Raised(o) THEN 0 ELSE o.ret, o.exc, FALSE)
    /\ UNCHANGED <<calls, returned>>
    /\ RunsFrame

\* crossover_operator, for a list of one candidate: a = random.choice(candidates);
\* b = random.choice(candidates); crossover(random, a, b)
crossover_operator(w, random, candidate) ==
    UNION {UNION {crossover_any(b.w, random, a.ret, b.ret) :
                    b \in random_choice(a.w, random, <<candidate>>)} :
             a \in random_choice(w, random, <<candidate>>)}

\* ea.variator = [crossover_operator, mutate_operator], applied to the
\* candidate of the selected parent (the engine hands over a copy of equal
\* value, which the crossover only reads).
RunVary ==
    /\ pc = "vary"
    /\ \E c \in crossover_operator(World(heap, stream, pos), "rand", roots[1].ref) :
         \E o \in IF Raised(c) THEN {c} ELSE mutate_operator(c.w, "rand", c.ret) :
            /\ heap' = o.w.heap
            /\ pos' = o.w.pos
            /\ roots' = IF Raised(o) THEN roots
                        ELSE Append(roots, Root(o.ret, "offspring", <<roots[1].ref>>))
            /\ last' = Operation("vary", IF Raised(o) THEN 0 ELSE o.ret, o.exc, FALSE)
    /\ pc' = "return"
    /\ UNCHANGED <<calls, returned>>
    /\ RunsFrame

\* return args: the arguments of the genomes of the run
RunReturn ==
    /\ pc = "return"
    /\ returned' = Append(returned, [i \in DOMAIN roots |-> get_args(heap, roots[i].ref)])
    /\ calls' = calls + 1
    /\ pc' = "idle"
    /\ last' = Operation("run", 0, last.exc, FALSE)
    /\ UNCHANGED <<heap, pos, roots>>
    /\ RunsFrame

RunsNext == RunRandom \/ RunSeed \/ RunGenerate \/ RunVary \/ RunReturn

SpecRuns == RunsInit /\ [][RunsNext]_vars

\* C13: a run reads no state that an earlier run has left behind (the
\* mutation rates that exist before the first run are, at the start of each
\* run, as they were at the start of the first), and two runs of one
\* strategy, one after the other in one process, for the same function and
\* the same settings, return the same arguments.
C13_RunsAreDeterministic ==
    /\ pc = "idle" =>
          /\ heap[ArgsDispatcher_default_mutation_probability] = MutableProbability(20, 2)
          /\ heap[InputBagIndividual_default_mutation_probability]
                = MutableProbability(10, 1)
    /\ Len(returned) = NumRuns => returned[1] = returned[2]

\* The last step was ArgsDispatcher.initialize with a guess for every
\* parameter, every adapter class being registered.
InitializedFromSeeds ==
    /\ last.op = "initialize"
    /\ last.seeded
    /\ registry = DefaultAdapters \cup {"DictAdapter"}
    /\ \A i \in DOMAIN parameters(fn.annotations) :
          parameters(fn.annotations)[i].name \in DOMAIN fn.initial_guesses

\* C21: ArgsDispatcher.initialize with a guess for every parameter returns
\* a genome, and the value of each parameter's adapter is that parameter's
\* guess, falsy guesses (False, 0, the empty string, the empty list)
\* included.
C21_SeedIsTheValue ==
    InitializedFromSeeds =>
       /\ last.exc = ""
       /\ \A i \in DOMAIN parameters(fn.annotations) :
             get_value(heap, heap[last.target].args[i])
                = fn.initial_guesses[parameters(fn.annotations)[i].name]

\* Every type of the descriptor, the nested ones included, has an adapter in
\* the registry.
RECURSIVE AllRegistered(_)
AllRegistered(adapted_type) ==
    /\ \E a \in registry : get_type(a) = get_raw_time(adapted_type)
    /\ \A i \in DOMAIN adapted_type.args : AllRegistered(adapted_type.args[i])

\* The genomes there are were built as a search builds them, from no
\* initial guesses.
BuiltBySearch == \A i \in DOMAIN roots : roots[i].origin # "seeded"

MaxBatch == 2

Endings == {"return", "Exception", "SystemExit"}

\* What the calls of a batch can be, for the tester class c.
Behaviours(c) ==
    [executed : IF c = "line" THEN SUBSET Range(FnLines)
                ELSE SUBSET ArcsOf(FnBranches),
     ends : Endings]

Batches(c) == UNION {[1..k -> Behaviours(c)] : k \in 0..MaxBatch}

\* for a in args: try: self.export_fn(*a) / except Exception: pass
\* What was executed in all, and the exception that left the loop, if any.
RECURSIVE run_calls(_, _)
run_calls(args, executed) ==
    IF args = <<>> THEN [executed |-> executed, exc |-> ""]
    ELSE IF Head(args).ends = "SystemExit"
    THEN [executed |-> executed \cup Head(args).executed, exc |-> "SystemExit"]
    ELSE run_calls(Tail(args), executed \cup Head(args).executed)

\* LineCoverageTester.run_test
LineCoverageTester_run_test(args) ==
    LET c == run_calls(args, {})
    IN IF c.exc # "" THEN {[cls |-> c.exc]}
       ELSE {LineExecutionResult(FnLines, list_of_lines(Range(FnLines) \ c.executed))}

\* BranchCoverageTester.run_test: the arcs come in the order of the
\* coverage data.
BranchCoverageTester_run_test(args) ==
    LET c == run_calls(args, {})
    IN IF c.exc # "" THEN {[cls |-> c.exc]}
       ELSE {BranchExecutionResult(t, FnBranches, None) :
               t \in {l \in ListsOver(ArcsOf(FnBranches)) : Range(l) = c.executed}}

OracleInit ==
    /\ EngineIdle
    /\ GenomeIdle
    /\ cls \in {"line", "branch"}
    /\ ra = None /\ rb = None /\ rc = None
    /\ out = None
    /\ batch \in Batches(cls)

\* out = self.tester.run_test(batch)
OracleRunTest ==
    /\ out = None
    /\ \E r \in IF cls = "line" THEN LineCoverageTester_run_test(batch)
                ELSE BranchCoverageTester_run_test(batch) :
         out' = Some(r)
    /\ UNCHANGED <<ra, rb, rc, batch>>
    /\ UNCHANGED engine_vars
    /\ UNCHANGED genome_vars

OracleNext == OracleRunTest

SpecOracle == OracleInit /\ [][OracleNext]_vars

\* What the calls of the batch executed, all together.
BatchExecuted == UNION {batch[i].executed : i \in DOMAIN batch}

\* run_test returned a result, no exception left it.
Returned(r) == r.cls \in {"line", "branch"}

\* C23: run_test returns a result, whatever the calls of the batch raise,
\* and the result covers what all the calls executed.
C23_RunTestNeverPropagates ==
    out # None => /\ Returned(out[1])
                  /\ covered(out[1]) = BatchExecuted

\* What does hold of run_test: when no call raises anything but an
\* Exception, it returns a result that covers what all the calls executed,
\* those after a call that raised included; an exception that is no
\* Exception (SystemExit) leaves run_test.
RunTestSwallowsExceptions ==
    out # None =>
       IF \A i \in DOMAIN batch : batch[i].ends # "SystemExit"
       THEN /\ Returned(out[1])
            /\ covered(out[1]) = BatchExecuted
       ELSE out[1] = [cls |-> "SystemExit"]

\* The first call of a batch of two raised an Exception, the second
\* executed something the first did not, and the result covers both.
RunTestContinued ==
    /\ out # None
    /\ Len(batch) = 2
    /\ batch[1].ends = "Exception"
    /\ batch[2].executed \ batch[1].executed # {}
    /\ Returned(out[1])
    /\ covered(out[1]) = batch[1].executed \cup batch[2].executed

(***************************************************************************)
(* SpecInt: one IntAdapter, built by initialize and mutated again and      *)
(* again with one seeded Random object, whose stream goes on from one      *)
(* mutate to the next.  The streams are sampled among the periodic ones    *)
(* over two digits whose period is the number of draws of a mutate that    *)
(* takes the regular branch and one that takes the reset branch.           *)
(***************************************************************************)
MaxMutations == 130

\* The calls of random in a mutate that takes the regular branch, and in one
\* that takes the reset branch.
IntAdapter_mutate_draws ==
    <<"gauss", "gauss", "random", "gauss", "gauss", "gauss",
      "gauss", "gauss", "random", "randint">>

MutateStreams == [1..Len(IntAdapter_mutate_draws) -> {0, 1}]

\* The IntAdapter of SpecInt and its array.
TheInt == 2
IntData(h) == h[h[TheInt].value].data

IntInit ==
    /\ EngineIdle
    /\ cls = "line"
    /\ ra = None /\ rb = None /\ rc = None /\ out = None /\ batch = <<>>
    /\ fn = <<>>
    /\ registry = {}
    /\ roots = <<>>
    /\ calls = 0
    /\ returned = <<>>
    /\ \E s \in MutateStreams, initial_value \in {None, Some(0)} :
         \E o \in IntAdapter_initialize(World(<<>>, s, 0), "rand", "int", initial_value) :
            /\ heap = o.w.heap
            /\ stream = s
            /\ pos = o.w.pos
            /\ last = [op |-> "initialize", target |-> o.ret, exc |-> "",
                       seeded |-> initial_value # None, before |-> <<>>]

\* adapter.mutate(random), with the Random object of the run
IntMutate ==
    /\ calls < MaxMutations
    /\ last.exc = ""
    /\ \E o \in IntAdapter_mutate(World(heap, stream, pos), "rand", TheInt) :
         /\ heap' = o.w.heap
         /\ pos' = o.w.pos % Len(stream)
         /\ last' = [op |-> "mutate", target |-> TheInt, exc |-> o.exc,
                     seeded |-> FALSE, before |-> IntData(heap)]
    /\ calls' = calls + 1
    /\ UNCHANGED <<stream, fn, registry, roots, returned>>
    /\ UNCHANGED engine_vars
    /\ UNCHANGED cov_vars

IntNext == IntMutate

SpecInt == IntInit /\ [][IntNext]_vars

\* The two self-adaptation steps every mutate starts with.
SelfAdapted(before, after) ==
    /\ after[I_RESET_PROB + 1] \in
          {clip(before[I_RESET_PROB + 1] + g, Fixed(0), Fixed(1)) :
             g \in {-RESET_PROB_MUTATION_RATE, RESET_PROB_MUTATION_RATE}}

ClippedStd(before) ==
    {clip(before[I_MUT_STD + 1] + g, Fixed(0), Fixed(1)) :
       g \in {-Fixed(MUT_STD_MUTATION_RATE), Fixed(MUT_STD_MUTATION_RATE)}}

\* What the reset branch does to the array.
ResetEffect(before, after) ==
    /\ SelfAdapted(before, after)
    /\ after[I_VALUE + 1] = before[I_VALUE + 1]
    /\ after[I_RESET_LOWER_BOUND + 1] = before[I_RESET_LOWER_BOUND + 1]
    /\ after[I_RESET_UPPER_BOUND + 1] = before[I_RESET_UPPER_BOUND + 1]
    /\ \E n \in int(before[I_RESET_LOWER_BOUND + 1])..int(before[I_RESET_UPPER_BOUND + 1]) :
          after[I_MUT_STD + 1] = Fixed(n)

\* What the regular branch does to the array.
RegularEffect(before, after) ==
    /\ SelfAdapted(before, after)
    /\ after[I_MUT_STD + 1] \in ClippedStd(before)
    /\ \A i \in {I_VALUE, I_RESET_LOWER_BOUND, I_RESET_UPPER_BOUND} :
          after[i + 1] - before[i + 1] \in {-after[I_MUT_STD + 1], after[I_MUT_STD + 1]}

C24_WitnessRegular ==
    /\ last.op = "mutate" /\ last.exc = ""
    /\ RegularEffect(last.before, IntData(heap))
    /\ IntData(heap)[I_VALUE + 1] # last.before[I_VALUE + 1]
    /\ IntData(heap)[I_RESET_LOWER_BOUND + 1] # last.before[I_RESET_LOWER_BOUND + 1]
    /\ IntData(heap)[I_RESET_UPPER_BOUND + 1] # last.before[I_RESET_UPPER_BOUND + 1]

\* C29: no mutate of an IntAdapter raises, and the truncated reset bounds of
\* every adapter stay in order.
C29_MutateNeverRaises ==
    /\ last.exc = ""
    /\ int(IntData(heap)[I_RESET_LOWER_BOUND + 1])
          <= int(IntData(heap)[I_RESET_UPPER_BOUND + 1])

\* The reset bounds have crossed.
BoundsCrossed ==
    IntData(heap)[I_RESET_LOWER_BOUND + 1] > IntData(heap)[I_RESET_UPPER_BOUND + 1]

\* The reset branch found an empty range: randint raised ValueError.
MutateRaised == last.op = "mutate" /\ last.exc = "ValueError"

(***************************************************************************)
(* Single-point crossover of strings and lists                             *)
(***************************************************************************)
\* The parents of the dispatcher the last crossover returned.
LastParents == roots[Len(roots)].of

CrossedDispatchers ==
    /\ last.op = "crossover" /\ last.exc = ""
    /\ heap[last.target].kind = "ArgsDispatcher"

\* The i-th adapters of the parents are strings or lists, neither empty.
SequenceParents(i) ==
    /\ heap[heap[last.target].args[i]].kind \in {"StrAdapter", "ListAdapter"}
    /\ get_value(heap, heap[LastParents[1]].args[i]) # <<>>
    /\ get_value(heap, heap[LastParents[2]].args[i]) # <<>>

\* child = val_a[:c] + val_b[c:] for a cut c with 0 <= c <= min(len_a, len_b)
SinglePoint(val_a, val_b, child) ==
    \E c \in 0..Min(Len(val_a), Len(val_b)) :
       child = SubSeq(val_a, 1, c) \o SubSeq(val_b, c + 1, Len(val_b))

\* C25: the crossover of two non-empty strings or lists is the head of the
\* first up to a cut no longer than the shorter parent, followed by the tail
\* of the second from that cut: it is as long as the second parent, and not
\* empty.
C25_CrossoverIsSinglePoint ==
    CrossedDispatchers =>
       \A i \in DOMAIN heap[last.target].args :
          SequenceParents(i) =>
             LET val_a == get_value(heap, heap[LastParents[1]].args[i])
                 val_b == get_value(heap, heap[LastParents[2]].args[i])
                 child == get_value(heap, heap[last.target].args[i])
             IN /\ SinglePoint(val_a, val_b, child)
                /\ Len(child) = Len(val_b)
                /\ child # <<>>

\* A child that has a head of its first parent and is not its second parent.
C25_Witness ==
    /\ CrossedDispatchers
    /\ \E i \in DOMAIN heap[last.target].args :
          /\ SequenceParents(i)
          /\ get_value(heap, heap[last.target].args[i])
                # get_value(heap, heap[LastParents[2]].args[i])
          /\ Len(get_value(heap, heap[LastParents[1]].args[i]))
                # Len(get_value(heap, heap[LastParents[2]].args[i]))

(***************************************************************************)
(* NovelSearch: the order of evaluation and replacement, the final assert  *)
(***************************************************************************)
\* C26: in NovelSearch the archive changes in the replacer's step only; the
\* replacer runs when every offspring of the generation has its fitness; and
\* every offspring that is novel against the archive the replacer starts
\* from is admitted, offspring with the same coverage included.
C26_ReplacerJudgesAgainstOldArchive ==
    [][strategy = "novel" =>
          /\ current_coverage' # current_coverage => pc = "replace"
          /\ pc = "replace" =>
                /\ Len(offspring) = Len(offspring_cs)
                /\ Len(offspring) = settings.num_selected
                /\ \A i \in DOMAIN offspring :
                      novelty(offspring[i].fitness,
                              archive_of(population, current_coverage)).num # 0
                         => \E j \in (Len(population) + 1)..Len(population') :
                               population'[j] = offspring[i]
      ]_vars

\* Two offspring of the first generation with the same coverage, new to the
\* archive of the initial population, have both been admitted.
C26_Witness ==
    /\ strategy = "novel"
    /\ pc = "observe"
    /\ num_generations = 1
    /\ \E j, k \in (settings.num_individuals + 1)..Len(population) :
          /\ j # k
          /\ population[j].fitness = population[k].fitness
          /\ ~(covered(population[j].fitness) \subseteq
                 UnionCovered(Fitnesses(SubSeq(population, 1, settings.num_individuals))))

\* assert self.current_coverage != None, at the end of NovelSearch.run
FinalAssert == current_coverage # None

\* C30: when evolve has returned in NovelSearch.run, the archive exists.
C30_FinalAssertHolds ==
    (strategy = "novel" /\ pc = "done") => FinalAssert

\* What does hold: the archive exists at the end of every run of at least
\* one generation.
FinalAssertAfterAGeneration ==
    (strategy = "novel" /\ pc = "done" /\ settings.num_generations >= 1) => FinalAssert

(***************************************************************************)
(* InputBag: the best fitness under steady-state replacement               *)
(***************************************************************************)
FewerSelected == strategy = "bag" /\ settings.num_selected < settings.num_individuals

\* C27: in InputBag with num_selected < num_individuals the scores the
\* observer logs never decrease, and no replacement lowers the best fitness
\* of the population.
C27_BestNeverDecreases ==
    [][FewerSelected =>
          /\ \A i \in 1..(Len(log') - 1) : FloatLeq(log'[i].score, log'[i + 1].score)
          /\ pc = "replace" =>
                FloatLeq(best_score(population), best_score(population'))
      ]_vars

\* Two generations are logged, and an offspring worse than the first score
\* logged is in the population.
C27_Witness ==
    /\ FewerSelected
    /\ Len(log) >= 2
    /\ \E i \in DOMAIN population :
          /\ population[i].candidate > settings.num_individuals
          /\ FloatLt(population[i].fitness, log[1].score)

(***************************************************************************)
(* DictAdapter: the keys of the internal map                               *)
(***************************************************************************)
DictAdapters == {a \in DOMAIN heap : heap[a].kind = "DictAdapter"}

\* Every entry of the map of a is stored under the raw value of its key
\* adapter.
KeyedByRawValue(a) ==
    \A i \in DOMAIN heap[a].final_dict :
       heap[a].final_dict[i].key
          = raw_key(get_value(heap, heap[a].final_dict[i].k))

\* SpecDict: the genomes of a function with a dict parameter, DictAdapter
\* registered; mutate is called on the dispatchers and individuals, which
\* hand it down to the adapters they hold.
DictInit ==
    /\ GenomeInit
    /\ "DictAdapter" \in registry
    /\ \E i \in DOMAIN fn.annotations : fn.annotations[i].type.origin = "dict"

DictMutate == GMutate /\ IsGenome(heap, last'.target)

DictNext ==
    \/ GInitialize
    \/ GGenerate
    \/ DictMutate
    \/ GMutateOperator
    \/ GCrossover
    \/ GDeepCopy

SpecDict == DictInit /\ [][DictNext]_vars

\* C28: every entry of the map of a DictAdapter is stored under the raw
\* value of its key adapter, and get_value() has as many entries as the map.
C28_MapKeyedByRawValue ==
    \A a \in DictAdapters :
       /\ KeyedByRawValue(a)
       /\ Len(get_value(heap, a)) = Len(heap[a].final_dict)

\* What does hold: as long as nothing has been crossed over, the maps are
\* keyed by raw values.
UncrossedMapKeyedByRawValue ==
    (\A i \in DOMAIN roots : roots[i].origin # "crossover")
       => \A a \in DictAdapters : KeyedByRawValue(a)

\* A crossover has stored an entry under a key adapter of parent A.
CrossoverKeyedByObject ==
    /\ last.op = "crossover"
    /\ \E a \in DictAdapters : \E i \in DOMAIN heap[a].final_dict :
          heap[a].final_dict[i].key.tag = "object"

\* get_value() has fewer entries than the map: two entries have key adapters
\* of the same value.
FewerValuesThanEntries ==
    \E a \in DictAdapters : Len(get_value(heap, a)) < Len(heap[a].final_dict)

=============================================================================
